---- MODULE Spec2Model ----
(***************************************************************************)
(* Model of the real-time perception pipeline of ai-classroom_monitor:     *)
(* ai_service/trackers/bytetrack.py (STrack, KalmanFilter, ByteTracker)    *)
(* and ai_service/pipeline.py (MonitoringPipeline).                        *)
(*                                                                         *)
(* Numbers.  Coordinates are integer pixels, scores are integer percent    *)
(* (0.5 is 50), IoU costs are integers in 1/10000 (cost 0.8 is 8000).      *)
(* floor(x) < n holds exactly when x < n for an integer n, so every gate   *)
(* comparison of the source (cost < thresh, iou > 0.5) is decided exactly. *)
(* The Kalman covariance is not carried: it only determines the gain, and  *)
(* the gain is modelled by the fixed fractions GainPosNum/GainDen and      *)
(* GainVelNum/GainDen (integer arithmetic, rounded toward zero).           *)
(***************************************************************************)
EXTENDS Integers, Sequences, FiniteSets, TLC

\* ------------------------------------------------------------------------
\* Program constants
\* ------------------------------------------------------------------------
track_thresh == 50
match_thresh == 8000
second_match_thresh == 5000
third_match_thresh == 7000
min_box_area == 100
phone_detection_frames == 3
attention_high_threshold == 70
track_match_iou_pct == 50

\* Kalman gain of the model (see the header): position 9/10, velocity 2/10.
GainPosNum == 9
GainVelNum == 2
GainDen == 10

\* ------------------------------------------------------------------------
\* Bounds of the model
\* ------------------------------------------------------------------------
\* ByteTracker(track_buffer=...) is a constructor parameter; the pipeline
\* model instantiates the tracker with this small buffer so that expiry
\* happens within MaxFrames frames.  Statements are relative to it.
track_buffer == 1
MaxFrames == 4

\* ------------------------------------------------------------------------
\* Generic helpers
\* ------------------------------------------------------------------------
Max(a, b) == IF a >= b THEN a ELSE b
Min(a, b) == IF a <= b THEN a ELSE b

RECURSIVE SortedSeq(_)
\* ascending sequence of a finite set of integers (list(range(n)) minus removals)
SortedSeq(S) ==
    IF S = {} THEN <<>>
    ELSE LET lo == CHOOSE x \in S : \A y \in S : x <= y
         IN <<lo>> \o SortedSeq(S \ {lo})

Range(s) == { s[i] : i \in 1..Len(s) }

\* ------------------------------------------------------------------------
\* TrackState
\* ------------------------------------------------------------------------
TrackState_NEW == 0
TRACKED == 1
LOST == 2
REMOVED == 3

NoStudent == "none"

\* ------------------------------------------------------------------------
\* Kalman filter (constant velocity, dt = 1)
\* ------------------------------------------------------------------------
\* mean = <<cx, cy, w, h, vx, vy, vw, vh>>
Scale(n, num, den) == IF n >= 0 THEN (n * num) \div den ELSE 0 - (((0 - n) * num) \div den)

Measurement(bbox) ==
    << (bbox[1] + bbox[3]) \div 2, (bbox[2] + bbox[4]) \div 2,
       bbox[3] - bbox[1], bbox[4] - bbox[2] >>

KalmanInitiate(measurement) == measurement \o <<0, 0, 0, 0>>

KalmanPredict(mean) ==
    [i \in 1..8 |-> IF i <= 4 THEN mean[i] + mean[i + 4] ELSE mean[i]]

KalmanUpdate(mean, measurement) ==
    [i \in 1..8 |->
        IF i <= 4 THEN mean[i] + Scale(measurement[i] - mean[i], GainPosNum, GainDen)
        ELSE mean[i] + Scale(measurement[i - 4] - mean[i - 4], GainVelNum, GainDen)]

BoxOfMean(mean) ==
    << mean[1] - (mean[3] \div 2), mean[2] - (mean[4] \div 2),
       mean[1] + (mean[3] \div 2), mean[2] + (mean[4] \div 2) >>

\* ------------------------------------------------------------------------
\* IoU and assignment
\* ------------------------------------------------------------------------
BoxArea(b) == (b[3] - b[1]) * (b[4] - b[2])

InterArea(b1, b2) ==
    Max(0, Min(b1[3], b2[3]) - Max(b1[1], b2[1])) *
    Max(0, Min(b1[4], b2[4]) - Max(b1[2], b2[2]))

UnionArea(b1, b2) == BoxArea(b1) + BoxArea(b2) - InterArea(b1, b2)

\* 1 - bbox_iou in 1/10000, rounded down
IouCost(b1, b2) ==
    IF UnionArea(b1, b2) > 0
    THEN (10000 * (UnionArea(b1, b2) - InterArea(b1, b2))) \div UnionArea(b1, b2)
    ELSE 10000

\* bbox_iou(b1, b2) > pct/100
IouAbove(b1, b2, pct) ==
    /\ UnionArea(b1, b2) > 0
    /\ 100 * InterArea(b1, b2) > pct * UnionArea(b1, b2)

iou_distance(tracks, detections) ==
    [p \in (1..Len(tracks)) \X (1..Len(detections)) |->
        IouCost(tracks[p[1]].bbox, detections[p[2]].bbox)]

Injections(A, B) == { f \in [A -> B] : \A x, y \in A : x # y => f[x] # f[y] }

\* the complete assignments linear_sum_assignment chooses among
Assignments(n, m) ==
    IF n <= m
    THEN { { <<r, f[r]>> : r \in 1..n } : f \in Injections(1..n, 1..m) }
    ELSE { { <<f[c], c>> : c \in 1..m } : f \in Injections(1..m, 1..n) }

RECURSIVE TotalCost(_, _)
TotalCost(cost, pairs) ==
    IF pairs = {} THEN 0
    ELSE LET p == CHOOSE q \in pairs : TRUE
         IN cost[p] + TotalCost(cost, pairs \ {p})

linear_sum_assignment(cost, n, m) ==
    CHOOSE a \in Assignments(n, m) :
        \A b \in Assignments(n, m) : TotalCost(cost, a) <= TotalCost(cost, b)

\* linear_assignment that keeps every pair of the assignment, whatever its cost
linear_assignment_ungated(cost, n, m, thresh) ==
    IF n = 0 \/ m = 0
    THEN [matches |-> {}, unmatched_tracks |-> SortedSeq(1..n), unmatched_dets |-> SortedSeq(1..m)]
    ELSE LET matches == linear_sum_assignment(cost, n, m)
         IN [matches |-> matches,
             unmatched_tracks |-> SortedSeq((1..n) \ { p[1] : p \in matches }),
             unmatched_dets |-> SortedSeq((1..m) \ { p[2] : p \in matches })]

linear_assignment(cost, n, m, thresh) ==
    IF n = 0 \/ m = 0
    THEN [matches |-> {}, unmatched_tracks |-> SortedSeq(1..n), unmatched_dets |-> SortedSeq(1..m)]
    ELSE LET matches == { p \in linear_sum_assignment(cost, n, m) : cost[p] < thresh }
         IN [matches |-> matches,
             unmatched_tracks |-> SortedSeq((1..n) \ { p[1] : p \in matches }),
             unmatched_dets |-> SortedSeq((1..m) \ { p[2] : p \in matches })]

\* ------------------------------------------------------------------------
\* STrack
\* ------------------------------------------------------------------------
\* STrack(bbox=..., score=...) built in ByteTracker.update for a detection;
\* __post_init__ has already drawn track_id from the class counter.
STrack(track_id, det) ==
    [track_id |-> track_id, bbox |-> det.bbox, score |-> det.score,
     mean |-> KalmanInitiate(Measurement(det.bbox)),
     state |-> TrackState_NEW, is_activated |-> FALSE,
     frame_id |-> 0, start_frame |-> 0, tracklet_len |-> 0,
     student_id |-> NoStudent]

activate(t, frame_id) ==
    [t EXCEPT !.frame_id = frame_id, !.start_frame = frame_id,
              !.state = TRACKED, !.is_activated = TRUE, !.tracklet_len = 0]

re_activate(t, new_track, frame_id) ==
    [t EXCEPT !.bbox = new_track.bbox, !.score = new_track.score,
              !.mean = new_track.mean, !.frame_id = frame_id,
              !.tracklet_len = 0, !.state = TRACKED, !.is_activated = TRUE]

update(t, new_track, frame_id) ==
    [t EXCEPT !.frame_id = frame_id, !.bbox = new_track.bbox,
              !.score = new_track.score, !.tracklet_len = @ + 1,
              !.state = TRACKED, !.is_activated = TRUE]

\* mark_lost that leaves the state alone
mark_lost_keeps_state(t) == t

mark_lost(t) == [t EXCEPT !.state = LOST]

mark_removed(t) == [t EXCEPT !.state = REMOVED]

\* ------------------------------------------------------------------------
\* ByteTracker
\* ------------------------------------------------------------------------
TrackIds(tracks) == { tracks[i].track_id : i \in 1..Len(tracks) }

NewTracker ==
    [tracked_tracks |-> <<>>, lost_tracks |-> <<>>, removed_tracks |-> <<>>, frame_id |-> 0]

\* column matched to row r / row matched to column c in a set of pairs
ColOf(matches, r) == (CHOOSE p \in matches : p[1] = r)[2]
Matched(matches, r) == \E p \in matches : p[1] = r

\* the predict step: Tracked tracks get mean and bbox, Lost tracks the mean only
PredictTracked(t) ==
    [t EXCEPT !.mean = KalmanPredict(t.mean), !.bbox = BoxOfMean(KalmanPredict(t.mean))]

PredictLost(t) == [t EXCEPT !.mean = KalmanPredict(t.mean)]

\* the expiry test of a lost track at frame_id
Expired(t, frame_id, buffer) == frame_id - t.frame_id > buffer

Pick(seq, idxs) == [k \in 1..Len(idxs) |-> seq[idxs[k]]]

\* update without the area filter
ValidDetsUnfiltered(detections) == detections

\* the detections that pass the area filter
ValidDets(detections) == SelectSeq(detections, LAMBDA d : BoxArea(d.bbox) >= min_box_area)

\* DetTracks with the class counter restarting at every update
DetTracksCounterRestarts(next_id, valid_dets) ==
    [k \in 1..Len(valid_dets) |-> STrack(k, valid_dets[k])]

\* one STrack per valid detection, each drawing the next id of the class counter
DetTracks(next_id, valid_dets) ==
    [k \in 1..Len(valid_dets) |-> STrack(next_id + k, valid_dets[k])]

HighDets(det_tracks) == SelectSeq(det_tracks, LAMBDA d : d.score >= track_thresh)
LowDets(det_tracks) == SelectSeq(det_tracks, LAMBDA d : d.score < track_thresh)

Associate(tracks, dets, thresh) ==
    linear_assignment(iou_distance(tracks, dets), Len(tracks), Len(dets), thresh)

\* ByteTracker.update up to the predict step.  The record c carries the
\* locals of the method from one step to the next.
UpdateBegin(tr, next_id, valid_dets, buffer) ==
    [frame_id |-> tr.frame_id + 1,
     buffer |-> buffer,
     removed_tracks |-> tr.removed_tracks,
     next_id |-> next_id + Len(valid_dets),
     high_dets |-> HighDets(DetTracks(next_id, valid_dets)),
     low_dets |-> LowDets(DetTracks(next_id, valid_dets)),
     tracked_tracks |-> [i \in 1..Len(tr.tracked_tracks) |-> PredictTracked(tr.tracked_tracks[i])],
     lost_tracks |-> [i \in 1..Len(tr.lost_tracks) |-> PredictLost(tr.lost_tracks[i])]]

\* the accepted pairs of an association pass: the track with the box the
\* cost was computed from, and the detection
Pairs(pass, tracks, dets, matches) ==
    { [pass |-> pass, track_id |-> tracks[p[1]].track_id, track_bbox |-> tracks[p[1]].bbox,
       det_id |-> dets[p[2]].track_id, det_bbox |-> dets[p[2]].bbox,
       det_score |-> dets[p[2]].score] : p \in matches }

\* first association: tracked tracks with the high-confidence detections
FirstMatched(tracked, high_dets, a1, frame_id) ==
    [i \in 1..Len(tracked) |->
        IF Matched(a1.matches, i)
        THEN update([tracked[i] EXCEPT !.mean =
                        KalmanUpdate(tracked[i].mean,
                                     Measurement(high_dets[ColOf(a1.matches, i)].bbox))],
                    high_dets[ColOf(a1.matches, i)], frame_id)
        ELSE tracked[i]]

FirstWith(c, tracked, a1) ==
    [tracked1 |-> FirstMatched(tracked, c.high_dets, a1, c.frame_id),
     pairs1 |-> Pairs(1, tracked, c.high_dets, a1.matches),
     unmatched_tracks |-> a1.unmatched_tracks,
     remaining_high_dets |-> Pick(c.high_dets, a1.unmatched_dets)] @@ c

FirstOf(c, tracked) == FirstWith(c, tracked, Associate(tracked, c.high_dets, match_thresh))

FirstAssociation(c) == FirstOf(c, SelectSeq(c.tracked_tracks, LAMBDA t : t.is_activated))

\* second association: the remaining tracked tracks with the low-confidence
\* detections; the tracks still unmatched are marked lost
SecondWith(c, remaining_tracked, a2) ==
    [remaining2 |-> [k \in 1..Len(remaining_tracked) |->
                        IF Matched(a2.matches, k)
                        THEN update(remaining_tracked[k], c.low_dets[ColOf(a2.matches, k)], c.frame_id)
                        ELSE remaining_tracked[k]],
     pairs2 |-> Pairs(2, remaining_tracked, c.low_dets, a2.matches),
     newly_lost |-> [k \in 1..Len(a2.unmatched_tracks) |->
                        mark_lost(remaining_tracked[a2.unmatched_tracks[k]])]] @@ c

SecondOf(c, remaining_tracked) ==
    SecondWith(c, remaining_tracked, Associate(remaining_tracked, c.low_dets, second_match_thresh))

SecondAssociation(c) == SecondOf(c, Pick(c.tracked1, c.unmatched_tracks))

\* third association: self.lost_tracks (the newly lost included) with the
\* remaining high-confidence detections
ThirdWith(c, lost_all, a3) ==
    [lost3 |-> [i \in 1..Len(lost_all) |->
                    IF Matched(a3.matches, i)
                    THEN re_activate(lost_all[i], c.remaining_high_dets[ColOf(a3.matches, i)], c.frame_id)
                    ELSE lost_all[i]],
     rematched |-> { p[1] : p \in a3.matches },
     pairs3 |-> Pairs(3, lost_all, c.remaining_high_dets, a3.matches),
     unmatched_high |-> Pick(c.remaining_high_dets, a3.unmatched_dets)] @@ c

ThirdOf(c, lost_all) ==
    ThirdWith(c, lost_all, Associate(lost_all, c.remaining_high_dets, third_match_thresh))

ThirdAssociation(c) == ThirdOf(c, c.lost_tracks \o c.newly_lost)

\* lost tracks beyond the buffer are marked removed
Expiry(c) ==
    [lost4 |-> [i \in 1..Len(c.lost3) |->
                    IF Expired(c.lost3[i], c.frame_id, c.buffer)
                    THEN mark_removed(c.lost3[i]) ELSE c.lost3[i]]] @@ c

\* new tracks from the unmatched high-confidence detections
SpawnOf(c, to_spawn) ==
    [new_tracks |-> [k \in 1..Len(to_spawn) |-> activate(to_spawn[k], c.frame_id)]] @@ c

NewTracks(c) == SpawnOf(c, SelectSeq(c.unmatched_high, LAMBDA d : d.score >= track_thresh))

HasId(tracks, id) == \E i \in 1..Len(tracks) : tracks[i].track_id = id
ById(tracks, id) == tracks[CHOOSE i \in 1..Len(tracks) : tracks[i].track_id = id]

\* the object of self.tracked_tracks with this id as the passes left it
Final(c, t) ==
    IF HasId(c.lost4, t.track_id) THEN ById(c.lost4, t.track_id)
    ELSE IF HasId(c.remaining2, t.track_id) THEN ById(c.remaining2, t.track_id)
    ELSE IF HasId(c.tracked1, t.track_id) THEN ById(c.tracked1, t.track_id)
    ELSE t

\* self.tracked_tracks after the list update
NewTrackedTracks(c) ==
    SelectSeq([i \in 1..Len(c.tracked_tracks) |-> Final(c, c.tracked_tracks[i])],
              LAMBDA t : t.state = TRACKED) \o c.new_tracks

UpdateResult(c, new_tracked_tracks) ==
    [tracker |-> [tracked_tracks |-> new_tracked_tracks,
                  lost_tracks |-> SelectSeq(c.lost4, LAMBDA t : t.state = LOST),
                  removed_tracks |-> c.removed_tracks,
                  frame_id |-> c.frame_id],
     next_id |-> c.next_id,
     active |-> SelectSeq(new_tracked_tracks, LAMBDA t : t.is_activated),
     reactivated |-> { c.lost3[i] : i \in c.rematched },
     marked_lost |-> TrackIds(c.newly_lost),
     removed |-> { c.lost4[i] : i \in { j \in 1..Len(c.lost4) : c.lost4[j].state = REMOVED } },
     spawned |-> TrackIds(c.new_tracks),
     pairs |-> c.pairs1 \cup c.pairs2 \cup c.pairs3,
     lost_predicted |-> c.lost_tracks]

UpdateEnd(c) == UpdateResult(c, NewTrackedTracks(c))

\* ByteTracker.update: tr is the tracker, next_id the class counter
\* STrack._next_id, detections the list of [bbox, score] dicts, buffer the
\* tracker's track_buffer.  The result carries the new tracker, the new
\* counter, the returned list and what the call did to which track.
ByteTrackerUpdate(tr, next_id, detections, buffer) ==
    [detections |-> detections] @@ UpdateEnd(NewTracks(Expiry(ThirdAssociation(SecondAssociation(FirstAssociation(
        UpdateBegin(tr, next_id, ValidDets(detections), buffer)))))))

\* ByteTracker.reset together with STrack.reset_id
ByteTrackerReset == [tracker |-> NewTracker, next_id |-> 0]

\* position of the first track with this id in a list
FirstIndex(tracks, id) == CHOOSE i \in 1..Len(tracks) :
    /\ tracks[i].track_id = id
    /\ \A j \in 1..(i - 1) : tracks[j].track_id # id

\* ByteTracker.assign_student_id: get_track_by_id searches
\* tracked_tracks + lost_tracks and the first hit gets the student_id
assign_student_id(tr, track_id, student_id) ==
    IF HasId(tr.tracked_tracks, track_id)
    THEN [tr EXCEPT !.tracked_tracks[FirstIndex(tr.tracked_tracks, track_id)].student_id = student_id]
    ELSE IF HasId(tr.lost_tracks, track_id)
    THEN [tr EXCEPT !.lost_tracks[FirstIndex(tr.lost_tracks, track_id)].student_id = student_id]
    ELSE tr

\* ------------------------------------------------------------------------
\* Capabilities (detector, face, pose/gaze) as the pipeline consumes them
\* ------------------------------------------------------------------------
None == "None"

\* twice the centre of a box (the centre itself may be a half pixel)
Center2(b) == << b[1] + b[3], b[2] + b[4] >>

Dist2(c, d) == (c[1] - d[1]) * (c[1] - d[1]) + (c[2] - d[2]) * (c[2] - d[2])

\* phone centre inside the person box (bounds included)
CenterInside(pb, c2) ==
    /\ 2 * pb[1] <= c2[1] /\ c2[1] <= 2 * pb[3]
    /\ 2 * pb[2] <= c2[2] /\ c2[2] <= 2 * pb[4]

RECURSIVE NearestPersonLastTie(_, _, _, _, _)
\* the person loop with "dist <= min_dist": of equally near persons the last
NearestPersonLastTie(persons, c2, i, best, best_d) ==
    IF i > Len(persons) THEN best
    ELSE IF CenterInside(persons[i].bbox, c2) THEN i - 1
    ELSE LET d == Dist2(c2, Center2(persons[i].bbox))
         IN IF best_d < 0 \/ d <= best_d
            THEN NearestPersonLastTie(persons, c2, i + 1, i - 1, d)
            ELSE NearestPersonLastTie(persons, c2, i + 1, best, best_d)

\* the person loop of detect_phones_near_persons from person i on (1-based);
\* best is the nearest 0-based index so far (-1: none), best_d its squared
\* doubled distance (-1: infinity)
RECURSIVE NearestPerson(_, _, _, _, _)
NearestPerson(persons, c2, i, best, best_d) ==
    IF i > Len(persons) THEN best
    ELSE IF CenterInside(persons[i].bbox, c2) THEN i - 1
    ELSE LET d == Dist2(c2, Center2(persons[i].bbox))
         IN IF best_d < 0 \/ d < best_d
            THEN NearestPerson(persons, c2, i + 1, i - 1, d)
            ELSE NearestPerson(persons, c2, i + 1, best, best_d)

RECURSIVE detect_phones_near_persons(_, _)
\* list of pairs (0-based person index, phone), one per associated phone
detect_phones_near_persons(persons, objects) ==
    IF objects = <<>> THEN <<>>
    ELSE LET rest == detect_phones_near_persons(persons, Tail(objects))
             obj == Head(objects)
             idx == NearestPerson(persons, Center2(obj.bbox), 1, 0 - 1, 0 - 1)
         IN IF obj.class_name = "phone" /\ idx >= 0 THEN << <<idx, obj>> >> \o rest ELSE rest

\* FaceDetector.compute_similarity in percent, for embeddings that are the
\* zero vector or a signed unit vector of the plane
compute_similarity(e1, e2) ==
    IF (e1[1] * e1[1] + e1[2] * e1[2] = 0) \/ (e2[1] * e2[1] + e2[2] * e2[2] = 0)
    THEN 0
    ELSE ((e1[1] * e2[1] + e1[2] * e2[2]) + 1) * 50

RECURSIVE MatchFromLastTie(_, _, _, _, _)
\* the loop with "similarity >= best_similarity"
MatchFromLastTie(query, known, i, best_match, best_similarity) ==
    IF i > Len(known) THEN best_match
    ELSE LET similarity == compute_similarity(query, known[i].embedding)
         IN IF similarity >= best_similarity
            THEN MatchFromLastTie(query, known, i + 1, known[i].student_id, similarity)
            ELSE MatchFromLastTie(query, known, i + 1, best_match, best_similarity)

\* the loop of FaceDetector.match_embedding from entry i on
RECURSIVE MatchFrom(_, _, _, _, _)
MatchFrom(query, known, i, best_match, best_similarity) ==
    IF i > Len(known) THEN best_match
    ELSE LET similarity == compute_similarity(query, known[i].embedding)
         IN IF similarity > best_similarity
            THEN MatchFrom(query, known, i + 1, known[i].student_id, similarity)
            ELSE MatchFrom(query, known, i + 1, best_match, best_similarity)

match_embedding(query, known, threshold) ==
    IF Len(known) = 0 THEN None ELSE MatchFrom(query, known, 1, None, threshold)

face_rec_threshold == 40

\* MonitoringPipeline._try_face_recognition: face.found is FALSE when there
\* is no face, no embedding, or detect_faces raised; else face.embedding is
\* the embedding of faces[0]
try_face_recognition(known, face) ==
    IF Len(known) = 0 THEN None
    ELSE IF ~face.found THEN None
    ELSE match_embedding(face.embedding, known, face_rec_threshold)

\* ------------------------------------------------------------------------
\* MonitoringPipeline: per-track processing
\* ------------------------------------------------------------------------
FrameWidth == 1280
FrameHeight == 720
recognition_interval == 240
TicksPerSecond == 120

\* analysis['gaze'] / analysis['pose'] is None
NoGaze == [found |-> FALSE, state |-> "unknown", score |-> 0]
NoPose == [found |-> FALSE, state |-> "unknown", score |-> 0]
NoFace == [found |-> FALSE, embedding |-> <<0, 0>>]

Event(eventType, track) ==
    [eventType |-> eventType, trackId |-> track.track_id, studentId |-> track.student_id]

TrackMetrics(track_id) ==
    [track_id |-> track_id, student_id |-> NoStudent,
     attention_scores |-> <<>>, posture_scores |-> <<>>,
     phone_usage_count |-> 0, distraction_count |-> 0,
     last_attention_state |-> "unknown", last_posture_state |-> "unknown",
     phone_detected_frames |-> 0]

\* the events _check_attention_events returns
check_attention_events(track, metrics, gaze) ==
    IF metrics.last_attention_state # gaze.state
    THEN IF gaze.state = "focused" /\ gaze.score >= attention_high_threshold
         THEN << Event("attention_high", track) >>
         ELSE IF gaze.state = "distracted" THEN << Event("attention_low", track) >>
         ELSE IF gaze.state = "drowsy" THEN << Event("drowsiness_detected", track) >>
         ELSE <<>>
    ELSE <<>>

\* _check_attention_events without the assignment to last_attention_state
attention_metrics_forgets(metrics, gaze) ==
    [metrics EXCEPT
        !.distraction_count =
            IF metrics.last_attention_state # gaze.state
               /\ ~(gaze.state = "focused" /\ gaze.score >= attention_high_threshold)
               /\ gaze.state = "distracted"
            THEN @ + 1 ELSE @]

\* the metrics _check_attention_events leaves
attention_metrics(metrics, gaze) ==
    [metrics EXCEPT
        !.distraction_count =
            IF metrics.last_attention_state # gaze.state
               /\ ~(gaze.state = "focused" /\ gaze.score >= attention_high_threshold)
               /\ gaze.state = "distracted"
            THEN @ + 1 ELSE @,
        !.last_attention_state = gaze.state]

\* the events _check_posture_events returns
check_posture_events(track, metrics, pose) ==
    IF metrics.last_posture_state # pose.state
    THEN IF pose.state \in {"slouching", "leaning"}
         THEN << Event("posture_poor", track) >>
         ELSE IF pose.state = "good" /\ metrics.last_posture_state \in {"slouching", "leaning"}
         THEN << Event("posture_good", track) >>
         ELSE <<>>
    ELSE <<>>

\* the phone counter after this frame
phone_counter(metrics, person_has_phone) ==
    IF person_has_phone THEN metrics.phone_detected_frames + 1
    ELSE Max(0, metrics.phone_detected_frames - 1)

\* _check_phone_events fires
phone_event_fires(counter) ==
    counter >= phone_detection_frames /\ counter = phone_detection_frames

track_matches_person(track, person) == IouAbove(track.bbox, person.bbox, track_match_iou_pct)

\* person_has_phone of _process_track; phone_associations holds pairs of a
\* 0-based person index and a phone
PersonHasPhone(track, phone_associations, persons) ==
    \E k \in 1..Len(phone_associations) :
        LET idx == phone_associations[k][1]
        IN idx < Len(persons)
           /\ (idx = track.track_id \/ track_matches_person(track, persons[idx + 1]))

\* int(c) of a coordinate, then the clamp to the frame
CropEmpty(bbox) ==
    \/ Min(FrameWidth, bbox[3]) <= Max(0, bbox[1])
    \/ Min(FrameHeight, bbox[4]) <= Max(0, bbox[2])

\* track_data as _process_track returns it
TrackData(track, attention, phone, events) ==
    [track_id |-> track.track_id, student_id |-> track.student_id,
     attention |-> attention, phone_detected |-> phone, events |-> events]

\* the new-track event of _process_track
EntryEvents(ps, track) ==
    IF track.track_id \notin DOMAIN ps.track_metrics
    THEN << [eventType |-> "student_entered", trackId |-> track.track_id,
             studentId |-> NoStudent] >>
    ELSE <<>>

\* self.session_metrics.track_metrics[track.track_id], created when missing
MetricsOf(ps, track_id) ==
    IF track_id \notin DOMAIN ps.track_metrics THEN TrackMetrics(track_id)
    ELSE ps.track_metrics[track_id]

SetKey(map, key, value) ==
    [k \in DOMAIN map \cup {key} |-> IF k = key THEN value ELSE map[k]]

\* what _process_track leaves in the pipeline: the track object, its metrics,
\* the cooldown table
Put(ps, i, track, metrics, cooldown) ==
    [ps EXCEPT !.tracked[i] = track,
               !.track_metrics = SetKey(ps.track_metrics, track.track_id, metrics),
               !.cooldown = cooldown]

\* the face recognition test without the cooldown
AttemptEveryFrame(track, cooldown, now) ==
    track.student_id = NoStudent

\* the cooldown test of the face recognition step
Attempt(track, cooldown, now) ==
    /\ track.student_id = NoStudent
    /\ now - (IF track.track_id \in DOMAIN cooldown THEN cooldown[track.track_id] ELSE 0)
          > recognition_interval

RecognizeWith(track, metrics, cooldown, now, face_result) ==
    [track |-> IF face_result # None THEN [track EXCEPT !.student_id = face_result] ELSE track,
     metrics |-> IF face_result # None THEN [metrics EXCEPT !.student_id = face_result] ELSE metrics,
     cooldown |-> SetKey(cooldown, track.track_id, now)]

\* the face recognition step of _process_track
Recognize(track, metrics, cooldown, known, now, face) ==
    IF Attempt(track, cooldown, now)
    THEN RecognizeWith(track, metrics, cooldown, now, try_face_recognition(known, face))
    ELSE [track |-> track, metrics |-> metrics, cooldown |-> cooldown]

\* the gaze branch of _process_track
AttentionStep(track, metrics, gaze) ==
    IF gaze.found
    THEN [metrics |-> attention_metrics(
                          [metrics EXCEPT !.attention_scores = Append(@, gaze.score)], gaze),
          events |-> check_attention_events(track, metrics, gaze)]
    ELSE [metrics |-> metrics, events |-> <<>>]

\* the pose branch of _process_track
PostureStep(track, metrics, pose) ==
    IF pose.found
    THEN [metrics |-> [metrics EXCEPT !.posture_scores = Append(@, pose.score),
                                      !.last_posture_state = pose.state],
          events |-> check_posture_events(track, metrics, pose)]
    ELSE [metrics |-> metrics, events |-> <<>>]

PhoneWith(track, metrics, counter) ==
    [metrics |-> [metrics EXCEPT !.phone_detected_frames = counter,
                                 !.phone_usage_count =
                                     IF phone_event_fires(counter) THEN @ + 1 ELSE @],
     events |-> IF phone_event_fires(counter) THEN << Event("phone_detected", track) >> ELSE <<>>,
     detected |-> counter >= phone_detection_frames]

\* the phone branch of _process_track
PhoneStep(track, metrics, person_has_phone) ==
    PhoneWith(track, metrics, phone_counter(metrics, person_has_phone))

Finish(ps, i, entry, r, gaze, att, pos, pho) ==
    [ps |-> Put(ps, i, r.track, pho.metrics, r.cooldown),
     raised |-> FALSE,
     track_data |-> TrackData(r.track, IF gaze.found THEN gaze ELSE NoGaze, pho.detected,
                              entry \o att.events \o pos.events \o pho.events)]

AfterPosture(ps, i, entry, r, gaze, att, pos, person_has_phone) ==
    Finish(ps, i, entry, r, gaze, att, pos, PhoneStep(r.track, pos.metrics, person_has_phone))

AfterAttention(ps, i, entry, r, out, att, person_has_phone) ==
    AfterPosture(ps, i, entry, r, out.gaze, att,
                 PostureStep(r.track, att.metrics, out.pose), person_has_phone)

\* after the face recognition step: out.raises is analyze raising, or
\* returning a dict without the key 'gaze'
AfterFace(ps, i, entry, r, phone_associations, persons, out) ==
    IF out.raises
    THEN [ps |-> Put(ps, i, r.track, r.metrics, r.cooldown), raised |-> TRUE,
          track_data |-> TrackData(r.track, NoGaze, FALSE, entry)]
    ELSE AfterAttention(ps, i, entry, r, out, AttentionStep(r.track, r.metrics, out.gaze),
                        PersonHasPhone(r.track, phone_associations, persons))

\* after the metrics entry exists: the crop, then face recognition
AfterEntry(ps, i, entry, metrics, phone_associations, persons, known, now, out) ==
    IF CropEmpty(ps.tracked[i].bbox)
    THEN [ps |-> Put(ps, i, ps.tracked[i], metrics, ps.cooldown), raised |-> FALSE,
          track_data |-> TrackData(ps.tracked[i], NoGaze, FALSE, entry)]
    ELSE AfterFace(ps, i, entry,
                   Recognize(ps.tracked[i], metrics, ps.cooldown, known, now, out.face),
                   phone_associations, persons, out)

\* MonitoringPipeline._process_track for the track at position i of ps.tracked.
\* ps = [tracked, has_metrics, track_metrics, cooldown]; out is what the
\* capabilities return for this track's crop: out.face, out.raises, out.gaze,
\* out.pose.  Result: the state left behind, whether an exception left the
\* method, and track_data.
process_track(ps, i, phone_associations, persons, known, now, out) ==
    IF ~ps.has_metrics
    THEN \* self.session_metrics is None: AttributeError
         [ps |-> ps, raised |-> TRUE, track_data |-> TrackData(ps.tracked[i], NoGaze, FALSE, <<>>)]
    ELSE AfterEntry(ps, i, EntryEvents(ps, ps.tracked[i]),
                    MetricsOf(ps, ps.tracked[i].track_id),
                    phone_associations, persons, known, now, out)

\* the loop over active_tracks of process_frame, from position i on; stops
\* at the first track whose processing raises
RECURSIVE ProcessTracks(_, _, _, _, _, _, _, _)
\* one turn of the loop: r is what _process_track did for track i
ProcessNext(r, i, track_results, phone_associations, persons, known, now, outs) ==
    IF r.raised
    THEN [ps |-> r.ps, raised |-> TRUE, track_results |-> track_results]
    ELSE ProcessTracks(r.ps, i + 1, Append(track_results, r.track_data),
                       phone_associations, persons, known, now, outs)

ProcessTracks(ps, i, track_results, phone_associations, persons, known, now, outs) ==
    IF i > Len(ps.tracked)
    THEN [ps |-> ps, raised |-> FALSE, track_results |-> track_results]
    ELSE ProcessNext(process_track(ps, i, phone_associations, persons, known, now, outs[i]),
                     i, track_results, phone_associations, persons, known, now, outs)

RECURSIVE Flatten(_)
\* events.extend(track_data['events']) over the track results, in order
Flatten(track_results) ==
    IF track_results = <<>> THEN <<>>
    ELSE Head(track_results).events \o Flatten(Tail(track_results))

\* ------------------------------------------------------------------------
\* Session metrics
\* ------------------------------------------------------------------------
NoSessionId == "None"

NoSessionMetrics ==
    [present |-> FALSE, session_id |-> NoSessionId, frame_count |-> 0,
     current_student_count |-> 0, peak_student_count |-> 0,
     attention_timeline |-> <<>>, track_metrics |-> << >>]

SessionMetrics(session_id) ==
    [present |-> TRUE, session_id |-> session_id, frame_count |-> 0,
     current_student_count |-> 0, peak_student_count |-> 0,
     attention_timeline |-> <<>>, track_metrics |-> << >>]

RECURSIVE SumScores(_)
SumScores(scores) == IF scores = <<>> THEN 0 ELSE Head(scores) + SumScores(Tail(scores))

\* _calculate_average_attention over the gaze scores of the frame's tracks
\* (percent, rounded down)
calculate_average_attention(gaze_scores) ==
    IF gaze_scores = <<>> THEN 0 ELSE SumScores(gaze_scores) \div Len(gaze_scores)

\* _update_session_metrics: n tracks were processed, gaze_scores are the
\* scores of those with a gaze result
update_session_metrics(sm, n, gaze_scores, now) ==
    IF ~sm.present THEN sm
    ELSE [sm EXCEPT
            !.frame_count = @ + 1,
            !.current_student_count = n,
            !.peak_student_count = Max(@, n),
            !.attention_timeline =
                IF n > 0
                THEN Append(@, [timestamp |-> now,
                                value |-> calculate_average_attention(gaze_scores),
                                student_count |-> n])
                ELSE @]

\* _calculate_fps over the window of call intervals (ticks): frames per
\* second, rounded down
calculate_fps(ft) ==
    IF Len(ft) < 2 THEN 0
    ELSE IF SumScores(ft) > 0 THEN (TicksPerSecond * Len(ft)) \div SumScores(ft) ELSE 0

\* the studentMetrics entry of one track
StudentMetrics(tm) ==
    [trackId |-> tm.track_id, studentId |-> tm.student_id,
     averageAttention |-> IF tm.attention_scores = <<>> THEN None
                          ELSE SumScores(tm.attention_scores) \div Len(tm.attention_scores),
     distractionCount |-> tm.distraction_count,
     phoneUsageCount |-> tm.phone_usage_count]

\* sum of student_count over the timeline
RECURSIVE SumStudentCount(_)
SumStudentCount(timeline) ==
    IF timeline = <<>> THEN 0
    ELSE Head(timeline).student_count + SumStudentCount(Tail(timeline))

\* stop_session returned {} / nothing was returned yet
NoAnalytics ==
    [returned |-> FALSE, peakStudentCount |-> 0, averageStudentCount |-> 0,
     studentMetrics |-> <<>>, totalFrames |-> 0, averageFps |-> 0]

\* _compile_session_analytics with totalFrames read from the FPS window
compile_session_analytics_window(sm, ft) ==
    [returned |-> TRUE,
     peakStudentCount |-> sm.peak_student_count,
     averageStudentCount |->
        IF sm.attention_timeline = <<>> THEN 0
        ELSE (100 * SumStudentCount(sm.attention_timeline)) \div Len(sm.attention_timeline),
     studentMetrics |-> [k \in 1..Len(SortedSeq(DOMAIN sm.track_metrics)) |->
                            StudentMetrics(sm.track_metrics[SortedSeq(DOMAIN sm.track_metrics)[k]])],
     totalFrames |-> Len(ft),
     averageFps |-> calculate_fps(ft)]

\* _compile_session_analytics: sm is self.session_metrics, ft the window
\* self._frame_times; averageStudentCount is in hundredths, rounded down
compile_session_analytics(sm, ft) ==
    [returned |-> TRUE,
     peakStudentCount |-> sm.peak_student_count,
     averageStudentCount |->
        IF sm.attention_timeline = <<>> THEN 0
        ELSE (100 * SumStudentCount(sm.attention_timeline)) \div Len(sm.attention_timeline),
     studentMetrics |-> [k \in 1..Len(SortedSeq(DOMAIN sm.track_metrics)) |->
                            StudentMetrics(sm.track_metrics[SortedSeq(DOMAIN sm.track_metrics)[k]])],
     totalFrames |-> sm.frame_count,
     averageFps |-> calculate_fps(ft)]

\* ------------------------------------------------------------------------
\* State
\* ------------------------------------------------------------------------
VARIABLES
    tracker,               \* ByteTracker: tracked_tracks, lost_tracks, removed_tracks, frame_id
    next_id,               \* STrack._next_id (class attribute)
    is_running,            \* MonitoringPipeline.is_running
    session_id,            \* MonitoringPipeline.session_id
    session_metrics,       \* MonitoringPipeline.session_metrics
    recognition_cooldown,  \* MonitoringPipeline._recognition_cooldown
    last_frame_time,       \* MonitoringPipeline._last_frame_time
    frame_times,           \* MonitoringPipeline._frame_times (deque, maxlen 30)
    known_embeddings,      \* MonitoringPipeline.known_embeddings
    active_sessions,       \* AppState.active_sessions (keys)
    now,                   \* time.time(), in ticks of 1/120 s
    calls,                 \* number of process_frame calls made so far
    sessions,              \* number of start_session calls made so far
    sink,                  \* what on_event has received: <<call, session, event>>
    frame_sink,            \* what on_frame has received: the calls' numbers
    last_result,           \* the dict the last process_frame call returned
    last_update,           \* what the last ByteTracker.update did
    created,               \* track_ids of the tracks spawned since the last reset
    expired,               \* the tracks marked Removed since the last reset
    phone_log,             \* per processed call: phone_detected_frames of every track, the phone associations
    tasks,                 \* process_frame coroutines suspended in an awaited sink
    analytics,             \* what the last stop_session returned
    model_handle,          \* the module globals _yolo_model, _face_app, _pose_detector
    models_lock,           \* holder of each module's _models_lock
    callers,               \* position of each thread inside a model getter
    constructed,           \* constructor calls that have returned, per getter
    prepared,              \* getters whose handle has been through prepare()
    call                   \* a capability call: the function, its arguments, its result

\* the state of the lazily loaded models
model_vars == << model_handle, models_lock, callers, constructed, prepared >>

\* the state of the pipeline, its tracker and the service around it
pipeline_vars ==
    << tracker, next_id, is_running, session_id, session_metrics,
       recognition_cooldown, last_frame_time, frame_times, known_embeddings,
       active_sessions, now, calls, sessions, sink, frame_sink, last_result,
       last_update, created, expired, phone_log, tasks, analytics >>

vars == << pipeline_vars, model_vars, call >>

frame_times_maxlen == 30
Epoch == 1000

DequeAppend(q, x) == IF Len(q) >= frame_times_maxlen THEN Tail(q) \o <<x>> ELSE Append(q, x)

NoUpdate ==
    [happened |-> FALSE, active |-> <<>>, reactivated |-> {}, marked_lost |-> {},
     removed |-> {}, spawned |-> {}, pairs |-> {}, lost_predicted |-> <<>>,
     detections |-> <<>>]

NoResult ==
    [returned |-> FALSE, error |-> FALSE, session_id |-> NoSessionId,
     tracks |-> <<>>, events |-> <<>>, student_count |-> 0]

ErrorResult(sid) ==
    [returned |-> TRUE, error |-> TRUE, session_id |-> sid,
     tracks |-> <<>>, events |-> <<>>, student_count |-> 0]

Catalog ==
    << [student_id |-> "s1", embedding |-> <<1, 0>>],
       [student_id |-> "s2", embedding |-> <<0 - 1, 0>>] >>

\* a freshly constructed MonitoringPipeline in a service without sessions
InitPipeline ==
    /\ tracker = NewTracker
    /\ next_id = 0
    /\ is_running = FALSE
    /\ session_id = NoSessionId
    /\ session_metrics = NoSessionMetrics
    /\ recognition_cooldown = << >>
    /\ last_frame_time = 0
    /\ frame_times = <<>>
    /\ known_embeddings = <<>>
    /\ active_sessions = {}
    /\ now = Epoch
    /\ calls = 0
    /\ sessions = 0
    /\ sink = <<>>
    /\ frame_sink = <<>>
    /\ last_result = NoResult
    /\ last_update = NoUpdate
    /\ created = {}
    /\ expired = {}
    /\ phone_log = <<>>
    /\ tasks = <<>>
    /\ analytics = NoAnalytics

NoHandle == 0
NoCaller == 0
MaxCallers == 2
Callers == 1..MaxCallers

\* the getters: get_yolo_model and get_face_app share the _models_lock of
\* models/detection.py, get_pose_detector has that of models/pose_gaze.py
Getters == { "get_yolo_model", "get_face_app", "get_pose_detector" }
Locks == { "detection", "pose_gaze" }
LockOf(getter) == IF getter = "get_pose_detector" THEN "pose_gaze" ELSE "detection"

Idle == [at |-> "idle", getter |-> "none", ret |-> NoHandle]

\* the module globals after import
InitModels ==
    /\ model_handle = [g \in Getters |-> NoHandle]
    /\ models_lock = [l \in Locks |-> NoCaller]
    /\ callers = [c \in Callers |-> Idle]
    /\ constructed = [g \in Getters |-> 0]
    /\ prepared = {}

NoCall == [fn |-> "none"]

Init == InitPipeline /\ InitModels /\ call = NoCall

\* ------------------------------------------------------------------------
\* MonitoringPipeline.process_frame up to the callbacks
\* ------------------------------------------------------------------------
GazeScores(track_results) ==
    LET with == SelectSeq(track_results, LAMBDA t : t.attention.found)
    IN [k \in 1..Len(with) |-> with[k].attention.score]

\* what the ByteTracker.update of this call did
UpdateSummary(upd) ==
    [happened |-> TRUE, active |-> upd.active, reactivated |-> upd.reactivated,
     marked_lost |-> upd.marked_lost, removed |-> upd.removed, spawned |-> upd.spawned,
     pairs |-> upd.pairs, lost_predicted |-> upd.lost_predicted,
     detections |-> upd.detections]

WithTrackMetrics(sm, track_metrics) == [sm EXCEPT !.track_metrics = track_metrics]

\* FrameDone with an except branch that keeps the events collected before
\* the exception in the result
FrameDoneKeepsEvents(t, upd, run) ==
    [tracker |-> [upd.tracker EXCEPT !.tracked_tracks = run.ps.tracked],
     next_id |-> upd.next_id,
     session_metrics |->
        IF run.raised THEN WithTrackMetrics(session_metrics, run.ps.track_metrics)
        ELSE update_session_metrics(WithTrackMetrics(session_metrics, run.ps.track_metrics),
                                    Len(run.track_results), GazeScores(run.track_results), t),
     cooldown |-> run.ps.cooldown,
     frame_times |-> DequeAppend(frame_times, t - last_frame_time),
     update |-> UpdateSummary(upd),
     result |-> [returned |-> TRUE, error |-> run.raised, session_id |-> session_id,
                 tracks |-> run.track_results,
                 events |-> Flatten(run.track_results),
                 student_count |-> Len(upd.active)]]

\* process_frame from the end of the track loop to the result
FrameDone(t, upd, run) ==
    [tracker |-> [upd.tracker EXCEPT !.tracked_tracks = run.ps.tracked],
     next_id |-> upd.next_id,
     session_metrics |->
        IF run.raised THEN WithTrackMetrics(session_metrics, run.ps.track_metrics)
        ELSE update_session_metrics(WithTrackMetrics(session_metrics, run.ps.track_metrics),
                                    Len(run.track_results), GazeScores(run.track_results), t),
     cooldown |-> run.ps.cooldown,
     frame_times |-> DequeAppend(frame_times, t - last_frame_time),
     update |-> UpdateSummary(upd),
     result |-> IF run.raised THEN ErrorResult(session_id)
                ELSE [returned |-> TRUE, error |-> FALSE, session_id |-> session_id,
                      tracks |-> run.track_results,
                      events |-> Flatten(run.track_results),
                      student_count |-> Len(upd.active)]]

\* the phone associations of a frame, each with the box of its person
Associations(persons, phone_associations) ==
    [k \in 1..Len(phone_associations) |->
        [idx |-> phone_associations[k][1],
         person_bbox |-> persons[phone_associations[k][1] + 1].bbox]]

\* process_frame from the tracker's answer on: phone association, track loop
FrameTracked(t, upd, persons, objects, outs) ==
    [associations |-> Associations(persons, detect_phones_near_persons(persons, objects))]
    @@
    FrameDone(t, upd,
              ProcessTracks([tracked |-> upd.tracker.tracked_tracks,
                             has_metrics |-> session_metrics.present,
                             track_metrics |-> session_metrics.track_metrics,
                             cooldown |-> recognition_cooldown],
                            1, <<>>, detect_phones_near_persons(persons, objects),
                            persons, known_embeddings, t, outs))

\* The body of process_frame of a running pipeline at time t: detector,
\* tracker, phone association, the track loop, the session metrics and the
\* result.  detector_raises: person_detector.detect raises.
FrameBody(t, detector_raises, persons, objects, outs) ==
    IF detector_raises
    THEN [tracker |-> tracker, next_id |-> next_id, session_metrics |-> session_metrics,
          cooldown |-> recognition_cooldown,
          frame_times |-> DequeAppend(frame_times, t - last_frame_time),
          update |-> NoUpdate, result |-> ErrorResult(session_id), associations |-> <<>>]
    ELSE FrameTracked(t, ByteTrackerUpdate(tracker, next_id, persons, track_buffer),
                      persons, objects, outs)

\* the events of call c as the sink records them
Delivered(c, events) == [k \in 1..Len(events) |-> [call |-> c, session |-> sessions, event |-> events[k]]]

\* ------------------------------------------------------------------------
\* Inputs
\* ------------------------------------------------------------------------
BoxP1 == <<100, 100, 200, 300>>
BoxP2 == <<400, 100, 500, 300>>
BoxPhoneAtP1 == <<140, 180, 160, 200>>

Person(bbox, score) == [bbox |-> bbox, score |-> score]

Focused == [found |-> TRUE, state |-> "focused", score |-> 85]
\* focused with a score under attention_high_threshold
FocusedLow == [found |-> TRUE, state |-> "focused", score |-> 60]
Distracted == [found |-> TRUE, state |-> "distracted", score |-> 30]
Drowsy == [found |-> TRUE, state |-> "drowsy", score |-> 40]
GoodPose == [found |-> TRUE, state |-> "good", score |-> 90]
Slouching == [found |-> TRUE, state |-> "slouching", score |-> 40]
Leaning == [found |-> TRUE, state |-> "leaning", score |-> 50]

Outcome(face, raises, gaze, pose) == [face |-> face, raises |-> raises, gaze |-> gaze, pose |-> pose]

OutAttentive == Outcome(NoFace, FALSE, Focused, GoodPose)
OutGaze(gaze) == Outcome(NoFace, FALSE, gaze, GoodPose)
OutPose(pose) == Outcome(NoFace, FALSE, Focused, pose)
OutRaises == Outcome(NoFace, TRUE, NoGaze, NoPose)

\* self.frame_interval = 1.0 / target_fps with target_fps = 8, in ticks
frame_interval == 15

PersonInputs ==
    { <<>>,
      << Person(BoxP1, 90) >>,
      << Person(BoxP1, 90), Person(BoxP2, 90) >> }

Outcomes == { OutAttentive, OutRaises }

SessionIds == { "A" }
MaxSessions == 1

\* ------------------------------------------------------------------------
\* Actions
\* ------------------------------------------------------------------------
\* start_session with a tracker reset that leaves STrack._next_id alone
start_session_keeps_ids(sid) ==
    /\ session_id' = sid
    /\ is_running' = TRUE
    /\ tracker' = NewTracker
    /\ next_id' = next_id
    /\ session_metrics' = SessionMetrics(sid)
    /\ recognition_cooldown' = << >>

\* MonitoringPipeline.start_session
start_session(sid) ==
    /\ session_id' = sid
    /\ is_running' = TRUE
    /\ tracker' = ByteTrackerReset.tracker
    /\ next_id' = ByteTrackerReset.next_id
    /\ session_metrics' = SessionMetrics(sid)
    /\ recognition_cooldown' = << >>

\* POST /api/session/start, at most limit times
SessionStartUpTo(limit, sid, catalog) ==
    /\ sessions < limit
    /\ sid \notin active_sessions
    /\ known_embeddings' = catalog
    /\ start_session(sid)
    /\ active_sessions' = active_sessions \cup {sid}
    /\ sessions' = sessions + 1
    /\ created' = {}
    /\ expired' = {}
    /\ last_update' = NoUpdate
    /\ UNCHANGED << last_frame_time, frame_times, now, calls, sink, frame_sink,
                    last_result, phone_log, tasks, analytics, model_vars, call >>

\* POST /api/session/start
SessionStart(sid, catalog) == SessionStartUpTo(MaxSessions, sid, catalog)

\* MonitoringPipeline.stop_session
stop_session ==
    /\ is_running' = FALSE
    /\ session_id' = IF session_metrics.present THEN NoSessionId ELSE session_id
    /\ session_metrics' = NoSessionMetrics
    /\ analytics' = IF session_metrics.present
                    THEN compile_session_analytics(session_metrics, frame_times)
                    ELSE NoAnalytics

\* POST /api/session/stop
SessionStop(sid) ==
    /\ sid \in active_sessions
    /\ stop_session
    /\ active_sessions' = active_sessions \ {sid}
    /\ UNCHANGED << tracker, next_id, recognition_cooldown, last_frame_time, frame_times,
                    known_embeddings, now, calls, sessions, sink, frame_sink, last_result,
                    last_update, created, expired, phone_log, tasks, model_vars, call >>

\* POST /api/session/pause
SessionPause(sid) ==
    /\ sid \in active_sessions
    /\ is_running' = FALSE
    /\ UNCHANGED << tracker, next_id, session_id, session_metrics, recognition_cooldown,
                    last_frame_time, frame_times, known_embeddings, active_sessions, now,
                    calls, sessions, sink, frame_sink, last_result, last_update, created,
                    expired, phone_log, tasks, analytics, model_vars, call >>

\* a resume that goes through start_session
SessionResumeRestarts(sid) ==
    /\ sid \in active_sessions
    /\ start_session(sid)
    /\ created' = {}
    /\ expired' = {}
    /\ UNCHANGED << last_frame_time, frame_times, known_embeddings, active_sessions, now,
                    calls, sessions, sink, frame_sink, last_result, last_update,
                    phone_log, tasks, analytics, model_vars, call >>

\* POST /api/session/resume
SessionResume(sid) ==
    /\ sid \in active_sessions
    /\ is_running' = TRUE
    /\ UNCHANGED << tracker, next_id, session_id, session_metrics, recognition_cooldown,
                    last_frame_time, frame_times, known_embeddings, active_sessions, now,
                    calls, sessions, sink, frame_sink, last_result, last_update, created,
                    expired, phone_log, tasks, analytics, model_vars, call >>

\* process_frame with the is_running test placed after the FPS tracking
ProcessFrameNotRunningTimed(limit, gap) ==
    /\ calls < limit
    /\ ~is_running
    /\ now' = now + gap
    /\ calls' = calls + 1
    /\ frame_times' = DequeAppend(frame_times, now + gap - last_frame_time)
    /\ last_frame_time' = now + gap
    /\ last_result' = [ErrorResult(NoSessionId) EXCEPT !.session_id = NoSessionId]
    /\ last_update' = NoUpdate
    /\ UNCHANGED << tracker, next_id, is_running, session_id, session_metrics,
                    recognition_cooldown, known_embeddings,
                    active_sessions, sessions, sink, frame_sink, created, expired, phone_log,
                    tasks, analytics, model_vars, call >>

\* process_frame while is_running is false
ProcessFrameNotRunning(limit, gap) ==
    /\ calls < limit
    /\ ~is_running
    /\ now' = now + gap
    /\ calls' = calls + 1
    /\ last_result' = [ErrorResult(NoSessionId) EXCEPT !.session_id = NoSessionId]
    /\ last_update' = NoUpdate
    /\ UNCHANGED << tracker, next_id, is_running, session_id, session_metrics,
                    recognition_cooldown, last_frame_time, frame_times, known_embeddings,
                    active_sessions, sessions, sink, frame_sink, created, expired, phone_log,
                    tasks, analytics, model_vars, call >>

\* phone_detected_frames per track
PhoneCounters(sm) ==
    [id \in DOMAIN sm.track_metrics |-> sm.track_metrics[id].phone_detected_frames]

\* the assignments of a process_frame call whose body is fb, callbacks aside
FrameState(gap, fb) ==
    /\ now' = now + gap
    /\ calls' = calls + 1
    /\ tracker' = fb.tracker
    /\ next_id' = fb.next_id
    /\ session_metrics' = fb.session_metrics
    /\ recognition_cooldown' = fb.cooldown
    /\ frame_times' = fb.frame_times
    /\ last_frame_time' = now + gap
    /\ last_update' = fb.update
    /\ created' = created \cup fb.update.spawned
    /\ expired' = expired \cup fb.update.removed
    /\ phone_log' = Append(phone_log, [call |-> calls + 1,
                                       counters |-> PhoneCounters(fb.session_metrics),
                                       associations |-> fb.associations])
    /\ last_result' = fb.result
    /\ UNCHANGED << is_running, session_id, known_embeddings, active_sessions, sessions,
                    analytics, model_vars, call >>

\* a process_frame call whose callbacks (on_event per event, then on_frame)
\* are plain functions, or coroutines that never suspend
FrameEffects(gap, fb) ==
    /\ FrameState(gap, fb)
    /\ sink' = sink \o Delivered(calls + 1, fb.result.events)
    /\ frame_sink' = IF fb.result.error THEN frame_sink ELSE Append(frame_sink, calls + 1)
    /\ UNCHANGED tasks

\* process_frame of a running pipeline; the callbacks are plain functions
ProcessFrame(limit, gap, persons, objects, PerTrack) ==
    /\ calls < limit
    /\ is_running
    /\ LET n == Len(ByteTrackerUpdate(tracker, next_id, persons, track_buffer).active)
       IN \E outs \in [1..n -> PerTrack] :
            FrameEffects(gap, FrameBody(now + gap, FALSE, persons, objects, outs))

\* process_frame of a running pipeline in which person_detector.detect raises
ProcessFrameDetectorFails(limit, gap) ==
    /\ calls < limit
    /\ is_running
    /\ FrameEffects(gap, FrameBody(now + gap, TRUE, <<>>, <<>>, <<>>))

Next ==
    \/ \E sid \in SessionIds : SessionStart(sid, <<>>)
    \/ \E sid \in SessionIds : SessionStop(sid)
    \/ \E sid \in SessionIds : SessionPause(sid)
    \/ \E sid \in SessionIds : SessionResume(sid)
    \/ ProcessFrameNotRunning(MaxFrames, frame_interval)
    \/ ProcessFrameDetectorFails(MaxFrames, frame_interval)
    \/ \E persons \in PersonInputs : ProcessFrame(MaxFrames, frame_interval, persons, <<>>, Outcomes)

Spec == Init /\ [][Next]_vars

\* ------------------------------------------------------------------------
\* One seated student, a phone in some frames
\* ------------------------------------------------------------------------
MaxPhoneFrames == 13

Phone(bbox) == [bbox |-> bbox, class_name |-> "phone"]

PhoneInputs == { <<>>, << Phone(BoxPhoneAtP1) >> }

NextPhone ==
    \/ SessionStart("A", <<>>)
    \/ \E objects \in PhoneInputs :
          ProcessFrame(MaxPhoneFrames, frame_interval, << Person(BoxP1, 90) >>, objects,
                       { OutAttentive })

SpecPhone == Init /\ [][NextPhone]_vars

\* ------------------------------------------------------------------------
\* Face recognition against a catalog
\* ------------------------------------------------------------------------
MaxIdentityFrames == 4

OutFace(embedding) ==
    Outcome([found |-> TRUE, embedding |-> embedding], FALSE, Focused, GoodPose)

FaceOutcomes == { OutAttentive, OutFace(<<1, 0>>), OutFace(<<0 - 1, 0>>) }

Catalogs == { Catalog, << Catalog[1] >> }

\* frames one frame interval apart, or further apart than the recognition cooldown
IdentityGaps == { frame_interval, recognition_interval + frame_interval }

NextIdentity ==
    \/ \E catalog \in Catalogs : SessionStart("A", catalog)
    \/ \E gap \in IdentityGaps, persons \in { <<>>, << Person(BoxP1, 90) >> } :
          ProcessFrame(MaxIdentityFrames, gap, persons, <<>>, FaceOutcomes)

SpecIdentity == Init /\ [][NextIdentity]_vars

\* ------------------------------------------------------------------------
\* Coroutine sinks: process_frame calls interleaved at "await on_event"
\* ------------------------------------------------------------------------
MaxAsyncFrames == 3

\* a process_frame call whose on_event is a coroutine that takes the event
\* and then suspends: the call runs up to its first await that yields
AsyncFrameEffects(gap, fb) ==
    /\ FrameState(gap, fb)
    /\ IF fb.result.error
       THEN UNCHANGED << sink, frame_sink, tasks >>
       ELSE IF fb.result.events = <<>>
       THEN /\ frame_sink' = Append(frame_sink, calls + 1)
            /\ UNCHANGED << sink, tasks >>
       ELSE /\ sink' = sink \o Delivered(calls + 1, << Head(fb.result.events) >>)
            /\ tasks' = Append(tasks, [call |-> calls + 1, session |-> sessions,
                                       pending |-> Tail(fb.result.events)])
            /\ UNCHANGED frame_sink

\* process_frame of a running pipeline whose on_event is such a coroutine
ProcessFrameAsync(limit, gap, persons, objects, PerTrack) ==
    /\ calls < limit
    /\ is_running
    /\ LET n == Len(ByteTrackerUpdate(tracker, next_id, persons, track_buffer).active)
       IN \E outs \in [1..n -> PerTrack] :
            AsyncFrameEffects(gap, FrameBody(now + gap, FALSE, persons, objects, outs))

\* the event loop resumes the suspended call at position i of tasks: the
\* next on_event, or on_frame and the return when no event is left
ResumeTask(i) ==
    /\ i \in 1..Len(tasks)
    /\ IF tasks[i].pending = <<>>
       THEN /\ frame_sink' = Append(frame_sink, tasks[i].call)
            /\ tasks' = SubSeq(tasks, 1, i - 1) \o SubSeq(tasks, i + 1, Len(tasks))
            /\ UNCHANGED sink
       ELSE /\ sink' = Append(sink, [call |-> tasks[i].call, session |-> tasks[i].session,
                                     event |-> Head(tasks[i].pending)])
            /\ tasks' = [tasks EXCEPT ![i].pending = Tail(@)]
            /\ UNCHANGED frame_sink
    /\ UNCHANGED << tracker, next_id, is_running, session_id, session_metrics,
                    recognition_cooldown, last_frame_time, frame_times, known_embeddings,
                    active_sessions, now, calls, sessions, last_result, last_update,
                    created, expired, phone_log, analytics, model_vars, call >>

NextAsync ==
    \/ SessionStart("A", <<>>)
    \/ \E persons \in PersonInputs :
          ProcessFrameAsync(MaxAsyncFrames, frame_interval, persons, <<>>, { OutAttentive })
    \/ \E i \in 1..MaxAsyncFrames : ResumeTask(i)

SpecAsync == Init /\ [][NextAsync]_vars

\* ------------------------------------------------------------------------
\* Frames arriving faster than the inference interval
\* ------------------------------------------------------------------------
MaxRateFrames == 6

\* a 30 Hz camera (4 ticks between frames), or one frame per inference interval
ArrivalGaps == { 4, frame_interval }

NextRate ==
    \/ SessionStart("A", <<>>)
    \/ \E gap \in ArrivalGaps, persons \in { <<>>, << Person(BoxP1, 90) >> } :
          ProcessFrame(MaxRateFrames, gap, persons, <<>>, { OutAttentive })

SpecRate == Init /\ [][NextRate]_vars

\* ------------------------------------------------------------------------
\* Sessions started one after the other on the same pipeline
\* ------------------------------------------------------------------------
MaxRestarts == 2
MaxSessionFrames == 3

\* POST /api/session/start, for a session after the first as well
SessionRestart(sid, catalog) == SessionStartUpTo(MaxRestarts, sid, catalog)

NextSessions ==
    \/ \E sid \in SessionIds : SessionRestart(sid, <<>>)
    \/ \E sid \in SessionIds : SessionStop(sid)
    \/ \E sid \in SessionIds : SessionPause(sid)
    \/ \E sid \in SessionIds : SessionResume(sid)
    \/ ProcessFrameNotRunning(MaxSessionFrames, frame_interval)
    \/ ProcessFrameDetectorFails(MaxSessionFrames, frame_interval)
    \/ \E persons \in PersonInputs :
          ProcessFrame(MaxSessionFrames, frame_interval, persons, <<>>, Outcomes)

SpecSessions == Init /\ [][NextSessions]_vars

\* ------------------------------------------------------------------------
\* Identity with ByteTracker.assign_student_id called between frames
\* ------------------------------------------------------------------------
StudentIds == { "s1", "s2" }

\* ByteTracker.assign_student_id(track_id, student_id)
AssignStudentId(track_id, student_id) ==
    /\ tracker' = assign_student_id(tracker, track_id, student_id)
    /\ UNCHANGED << next_id, is_running, session_id, session_metrics, recognition_cooldown,
                    last_frame_time, frame_times, known_embeddings, active_sessions, now,
                    calls, sessions, sink, frame_sink, last_result, last_update, created,
                    expired, phone_log, tasks, analytics, model_vars, call >>

NextAssign ==
    \/ \E catalog \in Catalogs : SessionStart("A", catalog)
    \/ \E gap \in IdentityGaps, persons \in { <<>>, << Person(BoxP1, 90) >> } :
          ProcessFrame(MaxIdentityFrames, gap, persons, <<>>, FaceOutcomes)
    \/ \E track_id \in 1..2, student_id \in StudentIds : AssignStudentId(track_id, student_id)

SpecAssign == Init /\ [][NextAssign]_vars

\* ------------------------------------------------------------------------
\* stop_session while process_frame calls are suspended in an awaited sink
\* ------------------------------------------------------------------------
NextStop ==
    \/ SessionStart("A", <<>>)
    \/ SessionStop("A")
    \/ \E persons \in PersonInputs :
          ProcessFrameAsync(MaxAsyncFrames, frame_interval, persons, <<>>, { OutAttentive })
    \/ \E i \in 1..MaxAsyncFrames : ResumeTask(i)

SpecStop == Init /\ [][NextStop]_vars

\* ------------------------------------------------------------------------
\* Properties: tracker and entry events (specification Spec)
\* ------------------------------------------------------------------------
LiveIds == TrackIds(tracker.tracked_tracks) \cup TrackIds(tracker.lost_tracks)

ExpiredIds == { t.track_id : t \in expired }

\* positions of the sink holding an event of this type and track, delivered
\* in the current session
SinkEvents(eventType, track_id) ==
    { k \in 1..Len(sink) : /\ sink[k].session = sessions
                           /\ sink[k].event.eventType = eventType
                           /\ sink[k].event.trackId = track_id }

\* C1: a Lost track matched in the third association is Tracked after the
\* call, keeps its track_id, and is in the tracker's tracked list and in the
\* list the update returns.
C1_ReactivatedIsTracked ==
    \A t \in last_update.reactivated :
        /\ t.state = TRACKED
        /\ t.track_id \in TrackIds(tracker.tracked_tracks)
        /\ t.track_id \in TrackIds(last_update.active)

\* C2: no track stays Lost beyond track_buffer frames after its last match, a
\* track is marked Removed exactly track_buffer + 1 updates after its last
\* match, a Removed track is in neither list and is not returned, and a track
\* spawned at the place of a Removed track that had entered has a new
\* track_id and a student_entered event of its own in the sink.
C2_RemovedThenReplaced ==
    /\ \A i \in 1..Len(tracker.lost_tracks) :
          tracker.frame_id - tracker.lost_tracks[i].frame_id <= track_buffer
    /\ \A t \in last_update.removed : tracker.frame_id - t.frame_id = track_buffer + 1
    /\ ExpiredIds \cap (LiveIds \cup TrackIds(last_update.active)) = {}
    /\ \A i \in 1..Len(last_update.active) :
          LET t == last_update.active[i]
          IN (/\ t.track_id \in last_update.spawned
              /\ \E old \in expired :
                    /\ old.bbox = t.bbox
                    /\ SinkEvents("student_entered", old.track_id) # {})
             => /\ t.track_id \notin ExpiredIds
                /\ SinkEvents("student_entered", t.track_id) # {}

\* C3: every track_id the tracker returned as active has exactly one
\* student_entered event in the sink of its session, delivered by the call
\* that first returned it.
C3_OneEntryPerTrack ==
    /\ \A id \in TrackIds(last_update.active) :
          Cardinality(SinkEvents("student_entered", id)) = 1
    /\ \A id \in last_update.spawned :
          \E k \in SinkEvents("student_entered", id) : sink[k].call = calls

Category(e) ==
    IF e.eventType = "student_entered" THEN 1
    ELSE IF e.eventType \in {"attention_high", "attention_low", "drowsiness_detected"} THEN 2
    ELSE IF e.eventType \in {"posture_poor", "posture_good"} THEN 3
    ELSE 4

\* C7: in the event list of a frame the entry events come first, then the
\* attention, posture and phone events, each category in ascending track_id.
C7_EventOrder ==
    \A i, j \in 1..Len(last_result.events) :
        i < j =>
            LET a == last_result.events[i]
                b == last_result.events[j]
            IN \/ Category(a) < Category(b)
               \/ Category(a) = Category(b) /\ a.trackId <= b.trackId

\* C10: within a session every track has a positive track_id, two tracks of
\* the tracker never share a track_id, a track spawned by an update has a
\* track_id above that of every track created before, and the track_id of a
\* Removed track belongs to no other track.
C10_TrackIds ==
    LET all == tracker.tracked_tracks \o tracker.lost_tracks
    IN /\ \A i \in 1..Len(all) : all[i].track_id > 0
       /\ \A id \in created : id > 0 /\ id <= next_id
       /\ \A i, j \in 1..Len(all) : i # j => all[i].track_id # all[j].track_id
       /\ \A id \in last_update.spawned :
             \A old \in created \ last_update.spawned : old < id
       /\ ExpiredIds \cap LiveIds = {}
       /\ ExpiredIds \cap last_update.spawned = {}

\* C10 is exercised: a track has been removed and a later update spawned a
\* track while another track was created in between or before
C10_Witness ==
    /\ expired # {}
    /\ last_update.spawned # {}
    /\ Cardinality(created) >= 2
    /\ \E id \in last_update.spawned : \E old \in ExpiredIds : old < id

\* ------------------------------------------------------------------------
\* Properties: phone events (specification SpecPhone)
\* ------------------------------------------------------------------------
PhoneCounterOf(sm, id) ==
    IF id \in DOMAIN sm.track_metrics THEN sm.track_metrics[id].phone_detected_frames ELSE 0

HasPhoneEvent(events, id) ==
    \E k \in 1..Len(events) :
        events[k].eventType = "phone_detected" /\ events[k].trackId = id

\* C4: a process_frame call emits phone_detected for a track exactly when the
\* call moved the track's phone_detected_frames from phone_detection_frames - 1
\* up to phone_detection_frames.
C4_PhoneEventOnRise ==
    [][ calls' = calls + 1 =>
          \A id \in DOMAIN session_metrics'.track_metrics :
              HasPhoneEvent(last_result'.events, id)
                 <=> /\ PhoneCounterOf(session_metrics, id) = phone_detection_frames - 1
                     /\ PhoneCounterOf(session_metrics', id) = phone_detection_frames ]_vars

\* C5: between two phone_detected events of one track its counter was 0 after
\* some call from the first event on and before the second.
C5_RefireNeedsZero ==
    \A k1, k2 \in 1..Len(sink) :
        (/\ k1 < k2
         /\ sink[k1].session = sink[k2].session
         /\ sink[k1].event.eventType = "phone_detected"
         /\ sink[k2].event.eventType = "phone_detected"
         /\ sink[k1].event.trackId = sink[k2].event.trackId)
        => \E j \in 1..Len(phone_log) :
              /\ sink[k1].call <= phone_log[j].call
              /\ phone_log[j].call < sink[k2].call
              /\ sink[k1].event.trackId \in DOMAIN phone_log[j].counters
              /\ phone_log[j].counters[sink[k1].event.trackId] = 0

\* ------------------------------------------------------------------------
\* Properties: identity (specification SpecIdentity)
\* ------------------------------------------------------------------------
\* C6: a track that carries a student_id has exactly one student_identified
\* event in the sink of its session.
C6_IdentifiedEvent ==
    \A i \in 1..Len(tracker.tracked_tracks) :
        tracker.tracked_tracks[i].student_id # NoStudent =>
            Cardinality(SinkEvents("student_identified",
                                   tracker.tracked_tracks[i].track_id)) = 1

\* ------------------------------------------------------------------------
\* Properties: delivery order (specification SpecAsync)
\* ------------------------------------------------------------------------
\* C8: the sink of a session receives the events of an earlier process_frame
\* call before those of a later call.
C8_FrameOrderInSink ==
    \A k1, k2 \in 1..Len(sink) :
        (k1 < k2 /\ sink[k1].session = sink[k2].session) => sink[k1].call <= sink[k2].call

\* ------------------------------------------------------------------------
\* Properties: admission rate (specification SpecRate)
\* ------------------------------------------------------------------------
\* C9: two frames the pipeline processed one after the other are at least one
\* inference interval apart, so tracker.frame_id advances at most once per
\* interval.
C9_OneFramePerInterval ==
    \A k \in 2..Len(frame_times) : frame_times[k] >= frame_interval

\* ------------------------------------------------------------------------
\* Properties: tracker bookkeeping (specification Spec)
\* ------------------------------------------------------------------------
\* C11: the tracked, lost and removed lists together hold as many tracks as
\* were spawned since the last reset.
C11_ListsHoldAllTracks ==
    Len(tracker.tracked_tracks) + Len(tracker.lost_tracks) + Len(tracker.removed_tracks)
        = Cardinality(created)

\* ------------------------------------------------------------------------
\* Properties: identity is kept (specification SpecAssign)
\* ------------------------------------------------------------------------
AllTracks(tr) == Range(tr.tracked_tracks) \cup Range(tr.lost_tracks)

\* C12: a track that carries a student_id carries the same student_id after
\* every step that keeps the track in the tracker.
C12_StudentIdKept ==
    [][ sessions' = sessions =>
          \A t \in AllTracks(tracker) : \A u \in AllTracks(tracker') :
              (t.track_id = u.track_id /\ t.student_id # NoStudent)
                  => u.student_id = t.student_id ]_vars

\* ------------------------------------------------------------------------
\* Properties: phone counter range (specification SpecPhone)
\* ------------------------------------------------------------------------
\* C13: phone_detected_frames of every track is between 0 and
\* phone_detection_frames + 1.
C13_PhoneCounterRange ==
    \A id \in DOMAIN session_metrics.track_metrics :
        /\ session_metrics.track_metrics[id].phone_detected_frames >= 0
        /\ session_metrics.track_metrics[id].phone_detected_frames <= phone_detection_frames + 1

\* ------------------------------------------------------------------------
\* Properties: admission and session control (specifications Spec, SpecSessions)
\* ------------------------------------------------------------------------
\* C14: a process_frame call made while is_running is false returns an error
\* result and leaves the tracker, the id counter, the session metrics, the
\* cooldown map, the FPS window and both sinks as they were.
C14_NotRunningNoEffect ==
    [][ (calls' = calls + 1 /\ ~is_running) =>
          /\ last_result'.returned
          /\ last_result'.error
          /\ UNCHANGED << tracker, next_id, session_metrics, recognition_cooldown,
                          frame_times, last_frame_time, sink, frame_sink >> ]_vars

\* C14 is exercised: a frame was submitted to a paused session that has tracks
\* and processed frames
C14_Witness ==
    /\ ~is_running
    /\ session_metrics.present
    /\ session_metrics.frame_count > 0
    /\ tracker.tracked_tracks # <<>>
    /\ last_result.returned /\ last_result.error
    /\ last_result.session_id = NoSessionId
    /\ last_update = NoUpdate

\* C16: from the pause of a session to its resume, whatever frames are
\* submitted in between, the tracker, the id counter and the session metrics
\* (per-track metrics included) do not change.
C16_PauseKeepsState ==
    [][ (/\ session_metrics.present
         /\ session_metrics'.present
         /\ sessions' = sessions
         /\ (~is_running \/ ~is_running'))
        => UNCHANGED << tracker, next_id, session_metrics >> ]_vars

\* C16 is exercised: the last two processed frames of this session have a
\* frame submitted to the paused session between them, and the frame after
\* the resume was matched to a track from before the pause
C16_Witness ==
    /\ is_running
    /\ last_update.happened
    /\ tracker.frame_id >= 2
    /\ Len(frame_times) >= 2
    /\ frame_times[Len(frame_times)] > frame_interval
    /\ \E i \in 1..Len(tracker.tracked_tracks) :
          /\ tracker.tracked_tracks[i].frame_id = tracker.frame_id
          /\ tracker.tracked_tracks[i].tracklet_len >= 1

\* C17: start_session leaves an empty tracker with frame_id 0 and the id
\* counter reset, fresh session metrics (no track metrics, frame_count 0,
\* peak 0, empty timeline), an empty cooldown map and is_running true; the
\* first track of the session gets track_id 1.
C17_StartResets ==
    [][ /\ sessions' = sessions + 1 =>
            /\ tracker' = NewTracker
            /\ next_id' = 0
            /\ session_metrics' = SessionMetrics(session_id')
            /\ session_metrics'.track_metrics = << >>
            /\ session_metrics'.frame_count = 0
            /\ session_metrics'.peak_student_count = 0
            /\ session_metrics'.attention_timeline = <<>>
            /\ recognition_cooldown' = << >>
            /\ is_running'
        /\ (last_update'.happened /\ tracker'.frame_id = 1 /\ last_update'.spawned # {})
              => 1 \in last_update'.spawned ]_vars

\* C17 is exercised: a second session, started after a session that had
\* tracks, has spawned its first track
C17_Witness ==
    /\ sessions = 2
    /\ is_running
    /\ tracker.frame_id = 1
    /\ 1 \in last_update.spawned
    /\ \E k \in 1..Len(sink) : sink[k].session = 1

\* C18: the analytics of a session stopped before any frame reached its
\* tracker report totalFrames 0, peakStudentCount 0, averageStudentCount 0
\* and no studentMetrics.
C18_EmptySessionAnalytics ==
    (analytics.returned /\ session_id = NoSessionId /\ tracker.frame_id = 0)
        => /\ analytics.totalFrames = 0
           /\ analytics.peakStudentCount = 0
           /\ analytics.averageStudentCount = 0
           /\ analytics.studentMetrics = <<>>

\* C18 is exercised: the second session was stopped with no frame processed,
\* after a first session that had tracks
C18_Witness ==
    /\ sessions = 2
    /\ session_id = NoSessionId
    /\ analytics.returned
    /\ tracker.frame_id = 0
    /\ \E k \in 1..Len(sink) : sink[k].session = 1

\* C19: the attention timeline has one entry per processed frame, so its
\* length is frame_count.
C19_TimelinePerFrame ==
    session_metrics.present =>
        Len(session_metrics.attention_timeline) = session_metrics.frame_count

\* C20: every process_frame call returns a result, and a call whose result
\* carries an error has delivered no event to on_event and no result to
\* on_frame.
C20_ErrorsAbsorbed ==
    /\ calls > 0 => last_result.returned
    /\ (last_result.returned /\ last_result.error) =>
          /\ \A k \in 1..Len(sink) : sink[k].call # calls
          /\ calls \notin Range(frame_sink)

\* C20 is exercised: a per-track step raised in a frame whose tracker update
\* spawned a track
C20_Witness ==
    /\ last_result.returned /\ last_result.error
    /\ last_update.happened
    /\ last_update.spawned # {}

\* ------------------------------------------------------------------------
\* Properties: stop (specification SpecStop)
\* ------------------------------------------------------------------------
\* C15: an event is delivered only for the session that is current and not
\* stopped, and nothing is delivered to on_event or on_frame while no session
\* is current.
C15_StopIsHard ==
    [][ /\ \A k \in (Len(sink) + 1)..Len(sink') :
              session_id # NoSessionId /\ sink'[k].session = sessions
        /\ frame_sink' # frame_sink => session_id # NoSessionId ]_vars

\* ------------------------------------------------------------------------
\* Properties: tracker clock and session frame count
\* ------------------------------------------------------------------------
\* C21: a frame whose result carries an error does not advance the tracker,
\* so in every state of a running session tracker.frame_id equals the
\* session's frame_count.
C21_FrameIdIsFrameCount ==
    (is_running /\ session_metrics.present) =>
        tracker.frame_id = session_metrics.frame_count

\* ------------------------------------------------------------------------
\* Two seated students whose faces are matched against the catalog
\* ------------------------------------------------------------------------
MaxPairFrames == 3

NextPair ==
    \/ \E catalog \in Catalogs : SessionStart("A", catalog)
    \/ \E gap \in IdentityGaps,
          persons \in { << Person(BoxP1, 90) >>, << Person(BoxP1, 90), Person(BoxP2, 90) >> } :
          ProcessFrame(MaxPairFrames, gap, persons, <<>>, FaceOutcomes)

SpecPair == Init /\ [][NextPair]_vars

\* C22: no two distinct tracks in state Tracked carry the same non-null
\* student_id.
C22_OneTrackPerStudent ==
    \A i, j \in 1..Len(tracker.tracked_tracks) :
        (/\ i # j
         /\ tracker.tracked_tracks[i].state = TRACKED
         /\ tracker.tracked_tracks[j].state = TRACKED
         /\ tracker.tracked_tracks[i].student_id # NoStudent)
        => tracker.tracked_tracks[i].student_id # tracker.tracked_tracks[j].student_id

\* ------------------------------------------------------------------------
\* Properties: one seated, attentive student (specification SpecPhone)
\* ------------------------------------------------------------------------
\* all positions of the sink holding an event of this type
SinkCount(eventType) ==
    Cardinality({ k \in 1..Len(sink) : sink[k].event.eventType = eventType })

\* C23: with the same single person detection and a focused gaze of score
\* >= 0.7 on every frame, every update returns exactly one track, with
\* track_id 1 and state Tracked, no second track is created, exactly one
\* student_entered and one attention_high event are emitted, and
\* peak_student_count is 1.
C23_OneSeatedStudent ==
    /\ last_update.happened =>
          /\ Len(last_update.active) = 1
          /\ last_update.active[1].track_id = 1
          /\ last_update.active[1].state = TRACKED
    /\ created \subseteq {1}
    /\ calls > 0 =>
          /\ SinkCount("student_entered") = 1
          /\ SinkCount("attention_high") = 1
          /\ session_metrics.peak_student_count = 1

\* C23 is exercised: the track of the first frame has been matched again in
\* later frames and its events are in the sink
C23_Witness ==
    /\ calls >= 3
    /\ last_update.happened
    /\ Len(last_update.active) = 1
    /\ last_update.active[1].tracklet_len >= 2
    /\ last_update.spawned = {}
    /\ SinkCount("attention_high") = 1

\* ------------------------------------------------------------------------
\* Properties: face recognition cooldown (specification SpecIdentity)
\* ------------------------------------------------------------------------
\* the tracks of the tracker's lists with this id
TracksWithId(id) ==
    { t \in Range(tracker.tracked_tracks) \cup Range(tracker.lost_tracks) : t.track_id = id }

\* C24: face recognition is gated per track: a frame attempts recognition
\* for a track (stamping its cooldown entry with the frame's time) only if
\* the track has no student_id and, when the track has been attempted
\* before at time t, only at t + recognition_interval or later.
C24_AttemptsGated ==
    [][ \A id \in DOMAIN recognition_cooldown' :
            (calls' = calls + 1 /\ recognition_cooldown'[id] = now') =>
                /\ \A t \in TracksWithId(id) : t.student_id = NoStudent
                /\ id \in DOMAIN recognition_cooldown =>
                      now' >= recognition_cooldown[id] + recognition_interval ]_vars

\* C24 is exercised: a frame inside the cooldown has processed a track that
\* is still unidentified without attempting recognition, after a first
\* attempt that found no match
C24_Witness ==
    /\ last_result.returned /\ ~last_result.error
    /\ Len(last_result.tracks) = 1
    /\ last_result.tracks[1].student_id = NoStudent
    /\ last_result.tracks[1].track_id \in DOMAIN recognition_cooldown
    /\ recognition_cooldown[last_result.tracks[1].track_id] = now - frame_interval

\* C24 is exercised: a track has been attempted a second time, after the
\* cooldown
C24_WitnessRetry ==
    /\ last_update.happened
    /\ \E i \in 1..Len(last_update.active) :
          /\ last_update.active[i].start_frame < tracker.frame_id
          /\ last_update.active[i].track_id \in DOMAIN recognition_cooldown
          /\ recognition_cooldown[last_update.active[i].track_id] = now

\* ------------------------------------------------------------------------
\* Lazily loaded models: threads inside the getters of models/detection.py
\* and models/pose_gaze.py
\* ------------------------------------------------------------------------
At(c, at) == callers[c].at = at

Goto(c, at) == callers' = [callers EXCEPT ![c].at = at]

\* a thread calls a getter
GetterCall(c, getter) ==
    /\ At(c, "idle")
    /\ callers' = [callers EXCEPT ![c] = [at |-> "outer", getter |-> getter, ret |-> NoHandle]]
    /\ UNCHANGED << model_handle, models_lock, constructed, prepared, pipeline_vars, call >>

\* "if _yolo_model is None:" outside the lock
OuterCheck(c) ==
    /\ At(c, "outer")
    /\ Goto(c, IF model_handle[callers[c].getter] = NoHandle THEN "acquire" ELSE "return")
    /\ UNCHANGED << model_handle, models_lock, constructed, prepared, pipeline_vars, call >>

\* "with _models_lock:" entered
Acquire(c) ==
    /\ At(c, "acquire")
    /\ models_lock[LockOf(callers[c].getter)] = NoCaller
    /\ models_lock' = [models_lock EXCEPT ![LockOf(callers[c].getter)] = c]
    /\ Goto(c, "inner")
    /\ UNCHANGED << model_handle, constructed, prepared, pipeline_vars, call >>

\* "if _yolo_model is None:" inside the lock
InnerCheck(c) ==
    /\ At(c, "inner")
    /\ Goto(c, IF model_handle[callers[c].getter] = NoHandle THEN "construct" ELSE "release")
    /\ UNCHANGED << model_handle, models_lock, constructed, prepared, pipeline_vars, call >>

\* the constructor returns an object and the global is assigned:
\* _yolo_model = YOLO(...), _pose_detector = _mp_pose.Pose(...), and
\* _face_app = FaceAnalysis(...), which is followed by _face_app.prepare(...)
Construct(c) ==
    /\ At(c, "construct")
    /\ constructed' = [constructed EXCEPT ![callers[c].getter] = @ + 1]
    /\ model_handle' = [model_handle EXCEPT ![callers[c].getter] = constructed'[callers[c].getter]]
    /\ Goto(c, IF callers[c].getter = "get_face_app" THEN "prepare" ELSE "release")
    /\ UNCHANGED << models_lock, prepared, pipeline_vars, call >>

\* _face_app.prepare(...) returns
Prepare(c) ==
    /\ At(c, "prepare")
    /\ prepared' = prepared \cup { callers[c].getter }
    /\ Goto(c, "release")
    /\ UNCHANGED << model_handle, models_lock, constructed, pipeline_vars, call >>

\* the import, the constructor or prepare raises: the except clause logs
\* and re-raises, the with statement releases the lock, the exception
\* leaves the getter
Raise(c) ==
    /\ At(c, "construct") \/ At(c, "prepare")
    /\ models_lock' = [models_lock EXCEPT ![LockOf(callers[c].getter)] = NoCaller]
    /\ Goto(c, "raised")
    /\ UNCHANGED << model_handle, constructed, prepared, pipeline_vars, call >>

\* the with statement is left normally
Release(c) ==
    /\ At(c, "release")
    /\ models_lock' = [models_lock EXCEPT ![LockOf(callers[c].getter)] = NoCaller]
    /\ Goto(c, "return")
    /\ UNCHANGED << model_handle, constructed, prepared, pipeline_vars, call >>

\* "return _yolo_model"
Return(c) ==
    /\ At(c, "return")
    /\ callers' = [callers EXCEPT ![c].at = "returned",
                                  ![c].ret = model_handle[callers[c].getter]]
    /\ UNCHANGED << model_handle, models_lock, constructed, prepared, pipeline_vars, call >>

\* the caller goes on and may call a getter again
Done(c) ==
    /\ At(c, "returned") \/ At(c, "raised")
    /\ callers' = [callers EXCEPT ![c] = Idle]
    /\ UNCHANGED << model_handle, models_lock, constructed, prepared, pipeline_vars, call >>

NextModels ==
    \E c \in Callers :
        \/ \E getter \in Getters : GetterCall(c, getter)
        \/ OuterCheck(c)
        \/ Acquire(c)
        \/ InnerCheck(c)
        \/ Construct(c)
        \/ Prepare(c)
        \/ Raise(c)
        \/ Release(c)
        \/ Return(c)
        \/ Done(c)

SpecModels == Init /\ [][NextModels]_vars

\* C25: under concurrent callers of a getter the constructor completes at
\* most once, every caller that returns gets the one handle, a handle once
\* set is never replaced, and when a caller gets an exception the handle is
\* unset.
C25_SingleInitializer ==
    [][ /\ \A g \in Getters :
              /\ constructed'[g] <= 1
              /\ model_handle[g] # NoHandle => model_handle'[g] = model_handle[g]
        /\ \A c \in Callers :
              /\ callers'[c].at = "returned" =>
                    /\ callers'[c].ret # NoHandle
                    /\ callers'[c].ret = model_handle'[callers'[c].getter]
              /\ (callers[c].at # "raised" /\ callers'[c].at = "raised") =>
                    model_handle'[callers[c].getter] = NoHandle ]_vars

\* C25 without get_face_app: the getters that assign the global with the
\* finished object
C25_SingleStepGetters ==
    [][ /\ \A g \in Getters \ { "get_face_app" } :
              /\ constructed'[g] <= 1
              /\ model_handle[g] # NoHandle => model_handle'[g] = model_handle[g]
        /\ \A c \in Callers :
              callers'[c].getter # "get_face_app" =>
                  /\ callers'[c].at = "returned" =>
                        /\ callers'[c].ret # NoHandle
                        /\ callers'[c].ret = model_handle'[callers'[c].getter]
                  /\ (callers[c].at # "raised" /\ callers'[c].at = "raised") =>
                        model_handle'[callers[c].getter] = NoHandle ]_vars

\* ------------------------------------------------------------------------
\* Attention: one or two students whose gaze state changes
\* ------------------------------------------------------------------------
MaxAttentionFrames == 3

GazeOutcomes ==
    { OutGaze(Focused), OutGaze(FocusedLow), OutGaze(Distracted), OutGaze(Drowsy),
      OutGaze(NoGaze), OutRaises }

NextAttention ==
    \/ SessionStart("A", <<>>)
    \/ \E persons \in { << Person(BoxP1, 90) >>, << Person(BoxP1, 90), Person(BoxP2, 90) >> } :
          ProcessFrame(MaxAttentionFrames, frame_interval, persons, <<>>, GazeOutcomes)

SpecAttention == Init /\ [][NextAttention]_vars

AttentionEventTypes == { "attention_high", "attention_low", "drowsiness_detected" }

\* C26: in every state the distraction_count of a track equals the number
\* of attention_low events emitted for the track.
C26_DistractionCount ==
    \A id \in DOMAIN session_metrics.track_metrics :
        session_metrics.track_metrics[id].distraction_count
            = Cardinality(SinkEvents("attention_low", id))

\* the attention events of a frame's result for a track
AttentionEventsOf(result, id) ==
    SelectSeq(result.events,
              LAMBDA e : e.trackId = id /\ e.eventType \in AttentionEventTypes)

\* the event type a change to this gaze calls for
AttentionEventFor(gaze) ==
    IF gaze.state = "focused" /\ gaze.score >= attention_high_threshold THEN "attention_high"
    ELSE IF gaze.state = "distracted" THEN "attention_low"
    ELSE IF gaze.state = "drowsy" THEN "drowsiness_detected"
    ELSE "none"

\* The part of C26 about one frame, on frames that return without error:
\* a track analysed with a gaze gets at most one attention event, and gets
\* one exactly when the gaze state differs from the last recorded state and
\* is focused with score >= 0.7 (attention_high), distracted (attention_low)
\* or drowsy (drowsiness_detected).
C26_EventOnChange ==
    [][ (calls' = calls + 1 /\ last_result'.returned /\ ~last_result'.error) =>
           \A k \in 1..Len(last_result'.tracks) :
              LET td == last_result'.tracks[k]
                  last == IF td.track_id \in DOMAIN session_metrics.track_metrics
                          THEN session_metrics.track_metrics[td.track_id].last_attention_state
                          ELSE "unknown"
                  expected == IF td.attention.found /\ td.attention.state # last
                              THEN AttentionEventFor(td.attention) ELSE "none"
                  got == AttentionEventsOf(last_result', td.track_id)
              IN IF expected = "none" THEN got = <<>>
                 ELSE Len(got) = 1 /\ got[1].eventType = expected ]_vars

\* ------------------------------------------------------------------------
\* Posture: one or two students whose posture state changes
\* ------------------------------------------------------------------------
MaxPostureFrames == 3

PoseOutcomes ==
    { OutPose(GoodPose), OutPose(Slouching), OutPose(Leaning), OutPose(NoPose), OutRaises }

NextPosture ==
    \/ SessionStart("A", <<>>)
    \/ \E persons \in { << Person(BoxP1, 90) >>, << Person(BoxP1, 90), Person(BoxP2, 90) >> } :
          ProcessFrame(MaxPostureFrames, frame_interval, persons, <<>>, PoseOutcomes)

SpecPosture == Init /\ [][NextPosture]_vars

PoorPostures == { "slouching", "leaning" }

\* the posture state recorded for a track in these track metrics
RecordedPosture(track_metrics, id) ==
    IF id \in DOMAIN track_metrics THEN track_metrics[id].last_posture_state ELSE "unknown"

\* the posture event a change of the recorded state calls for
PostureEventFor(before, after) ==
    IF before = after THEN "none"
    ELSE IF after \in PoorPostures THEN "posture_poor"
    ELSE IF after = "good" /\ before \in PoorPostures THEN "posture_good"
    ELSE "none"

\* the posture events this step delivers for a track
PostureEventsEmitted(id) ==
    SelectSeq(SubSeq(sink', Len(sink) + 1, Len(sink')),
              LAMBDA d : d.event.trackId = id
                         /\ d.event.eventType \in { "posture_poor", "posture_good" })

\* in this step, every track gets the posture event that the change of its
\* recorded posture state calls for, and no other
PostureEventsFollowChange ==
    \A id \in DOMAIN session_metrics'.track_metrics :
        LET expected == PostureEventFor(RecordedPosture(session_metrics.track_metrics, id),
                                        RecordedPosture(session_metrics'.track_metrics, id))
            got == PostureEventsEmitted(id)
        IN IF expected = "none" THEN got = <<>>
           ELSE Len(got) = 1 /\ got[1].event.eventType = expected

\* C27: posture_poor is emitted exactly on the frames where a track's
\* posture state changes to slouching or leaning, posture_good exactly on
\* the frames where it changes to good from slouching or leaning; a change
\* from 'unknown' to good and an unchanged state emit nothing.
C27_PostureEvents ==
    [][ calls' = calls + 1 => PostureEventsFollowChange ]_vars

\* The rule of C27 on the frames that return without error.
C27_PostureEventsNoError ==
    [][ (calls' = calls + 1 /\ ~last_result'.error) => PostureEventsFollowChange ]_vars

\* ------------------------------------------------------------------------
\* Properties: score lists (specification SpecPhone)
\* ------------------------------------------------------------------------
\* C28: the per-track attention_scores and posture_scores lists are bounded
\* rolling windows: however many frames a track has been observed, the
\* lists hold fewer scores than the frames the track was analysed in.
C28_ScoreListsBounded ==
    \A id \in DOMAIN session_metrics.track_metrics :
        /\ Len(session_metrics.track_metrics[id].attention_scores) < MaxPhoneFrames
        /\ Len(session_metrics.track_metrics[id].posture_scores) < MaxPhoneFrames

\* ------------------------------------------------------------------------
\* PersonDetector.detect_phones_near_persons called on its own
\* ------------------------------------------------------------------------
MaxPersons == 2
MaxObjects == 2

BoxLeft == <<0, 0, 10, 10>>
BoxRight == <<20, 0, 30, 10>>
BoxWide == <<0, 0, 40, 40>>

\* centre (5, 5): inside BoxLeft and BoxWide
BoxAtLeft == <<4, 4, 6, 6>>
\* centre (15, 5): inside BoxWide, as far from BoxLeft's centre as from BoxRight's
BoxBetween == <<14, 4, 16, 6>>
\* centre (15, 45): inside no box, nearest to BoxWide's centre
BoxBelow == <<14, 44, 16, 46>>

Object(bbox, class_name) == [bbox |-> bbox, class_name |-> class_name]

PersonLists ==
    UNION { [1..n -> { Person(BoxLeft, 90), Person(BoxRight, 90), Person(BoxWide, 90) }] :
            n \in 0..MaxPersons }

ObjectLists ==
    UNION { [1..n -> { Object(BoxAtLeft, "phone"), Object(BoxBetween, "phone"),
                       Object(BoxBelow, "phone"), Object(BoxAtLeft, "book") }] :
            n \in 0..MaxObjects }

InitPhones ==
    /\ InitPipeline
    /\ InitModels
    /\ call \in { [fn |-> "detect_phones_near_persons", persons |-> persons,
                   objects |-> objects, done |-> FALSE] :
                  persons \in PersonLists, objects \in ObjectLists }

\* the call returns
DetectPhonesNearPersons ==
    /\ call.fn = "detect_phones_near_persons"
    /\ ~call.done
    /\ call' = [fn |-> call.fn, persons |-> call.persons, objects |-> call.objects,
                done |-> TRUE,
                ret |-> detect_phones_near_persons(call.persons, call.objects)]
    /\ UNCHANGED << pipeline_vars, model_vars >>

NextPhones == DetectPhonesNearPersons

SpecPhones == InitPhones /\ [][NextPhones]_vars

\* the phones among the objects, in order
PhonesOf(objects) == SelectSeq(objects, LAMBDA o : o.class_name = "phone")

\* the real centre of the phone is inside the person's box
Contains(person, phone) ==
    /\ 2 * person.bbox[1] <= phone.bbox[1] + phone.bbox[3]
    /\ phone.bbox[1] + phone.bbox[3] <= 2 * person.bbox[3]
    /\ 2 * person.bbox[2] <= phone.bbox[2] + phone.bbox[4]
    /\ phone.bbox[2] + phone.bbox[4] <= 2 * person.bbox[4]

\* four times the squared distance between the centres
CenterDistance(person, phone) ==
    (person.bbox[1] + person.bbox[3] - phone.bbox[1] - phone.bbox[3])
        * (person.bbox[1] + person.bbox[3] - phone.bbox[1] - phone.bbox[3])
    + (person.bbox[2] + person.bbox[4] - phone.bbox[2] - phone.bbox[4])
        * (person.bbox[2] + person.bbox[4] - phone.bbox[2] - phone.bbox[4])

\* the 1-based position of the person the phone belongs to
OwnerOf(persons, phone) ==
    IF \E i \in 1..Len(persons) : Contains(persons[i], phone)
    THEN CHOOSE i \in 1..Len(persons) :
            /\ Contains(persons[i], phone)
            /\ \A j \in 1..(i - 1) : ~Contains(persons[j], phone)
    ELSE CHOOSE i \in 1..Len(persons) :
            /\ \A j \in 1..Len(persons) :
                  CenterDistance(persons[i], phone) <= CenterDistance(persons[j], phone)
            /\ \A j \in 1..(i - 1) :
                  CenterDistance(persons[j], phone) > CenterDistance(persons[i], phone)

\* C29: detect_phones_near_persons returns, for a non-empty person list,
\* exactly one pair per phone in the order of the phones: the lowest-index
\* person whose box contains the phone's centre if there is one, otherwise
\* the person with the nearest box centre, ties going to the lowest index;
\* with no persons it returns no pair, and no pair holds a non-phone object.
C29_PhoneOwner ==
    (call.fn = "detect_phones_near_persons" /\ call.done) =>
        /\ \A k \in 1..Len(call.ret) : call.ret[k][2].class_name = "phone"
        /\ call.persons = <<>> => call.ret = <<>>
        /\ call.persons # <<>> =>
              /\ Len(call.ret) = Len(PhonesOf(call.objects))
              /\ \A k \in 1..Len(call.ret) :
                    /\ call.ret[k][2] = PhonesOf(call.objects)[k]
                    /\ call.ret[k][1] + 1 = OwnerOf(call.persons, call.ret[k][2])

\* C29 is exercised: a phone inside the second person's box only, though
\* the first person's centre is nearer, and a book next to it
C29_Witness ==
    /\ call.fn = "detect_phones_near_persons" /\ call.done
    /\ call.persons = << Person(BoxRight, 90), Person(BoxWide, 90) >>
    /\ call.objects = << Object(BoxAtLeft, "book"), Object(BoxBetween, "phone") >>
    /\ call.ret = << <<1, Object(BoxBetween, "phone")>> >>

\* C29 is exercised: a phone as far from the first person as from the
\* second, inside neither box
C29_WitnessTie ==
    /\ call.fn = "detect_phones_near_persons" /\ call.done
    /\ call.persons = << Person(BoxRight, 90), Person(BoxLeft, 90) >>
    /\ call.objects = << Object(BoxBetween, "phone") >>
    /\ call.ret = << <<0, Object(BoxBetween, "phone")>> >>

\* ------------------------------------------------------------------------
\* FaceDetector.match_embedding called on its own
\* ------------------------------------------------------------------------
MaxCatalog == 3

\* the zero vector and the signed unit vectors of the plane
Embeddings == { <<0, 0>>, <<1, 0>>, <<0 - 1, 0>>, <<0, 1>>, <<0, 0 - 1>> }

\* similarity thresholds in percent: the similarities of these embeddings
\* are 0, 50 and 100
Thresholds == { 0, face_rec_threshold, 50, 100 }

StudentIdAt == << "s1", "s2", "s3", "s4" >>

\* catalogs of up to MaxCatalog students, entry i being student StudentIdAt[i]
CatalogLists ==
    UNION { { [i \in 1..n |-> [student_id |-> StudentIdAt[i], embedding |-> e[i]]] :
              e \in [1..n -> Embeddings] } : n \in 0..MaxCatalog }

InitMatch ==
    /\ InitPipeline
    /\ InitModels
    /\ call \in { [fn |-> "match_embedding", query |-> query, known |-> known,
                   threshold |-> threshold, done |-> FALSE] :
                  query \in Embeddings, known \in CatalogLists, threshold \in Thresholds }

\* the call returns; known_embeddings is only read
MatchEmbedding ==
    /\ call.fn = "match_embedding"
    /\ ~call.done
    /\ call' = [fn |-> call.fn, query |-> call.query, known |-> call.known,
                threshold |-> call.threshold, done |-> TRUE,
                ret |-> match_embedding(call.query, call.known, call.threshold)]
    /\ UNCHANGED << pipeline_vars, model_vars >>

NextMatch == MatchEmbedding

SpecMatch == InitMatch /\ [][NextMatch]_vars

\* the similarity of the query to entry i of the catalog
SimilarityTo(query, known, i) == compute_similarity(query, known[i].embedding)

\* the positions of the catalog whose similarity to the query is maximal
BestEntries(query, known) ==
    { i \in 1..Len(known) :
        \A j \in 1..Len(known) : SimilarityTo(query, known, j) <= SimilarityTo(query, known, i) }

\* what a finished match_embedding call has returned is the first entry of
\* maximal similarity when some similarity is above the threshold, and none
\* otherwise
ReturnedBestMatch ==
    (call.fn = "match_embedding" /\ call.done) =>
        IF \E i \in 1..Len(call.known) :
               SimilarityTo(call.query, call.known, i) > call.threshold
        THEN LET first == CHOOSE i \in BestEntries(call.query, call.known) :
                              \A j \in BestEntries(call.query, call.known) : i <= j
             IN call.ret = call.known[first].student_id
        ELSE call.ret = None

\* C30: match_embedding returns the first catalog entry whose similarity to
\* the query is maximal, provided that maximum is strictly greater than the
\* threshold, and none when the catalog is empty or no entry is strictly
\* above the threshold; the catalog is not modified.
C30_BestMatch ==
    /\ []ReturnedBestMatch
    /\ [][ call.fn = "match_embedding" => call'.known = call.known ]_vars

\* C30 is exercised: two entries equally similar to the query and above the
\* threshold, after an entry whose similarity equals the threshold
C30_Witness ==
    /\ call.fn = "match_embedding" /\ call.done
    /\ call.threshold = 50
    /\ call.query = <<1, 0>>
    /\ Len(call.known) = 3
    /\ call.known[1].embedding = <<0, 1>>
    /\ call.known[2].embedding = <<1, 0>>
    /\ call.known[3].embedding = <<1, 0>>
    /\ call.ret = "s2"

\* C30 is exercised: the best similarity equals the threshold and nothing
\* is returned
C30_WitnessEqual ==
    /\ call.fn = "match_embedding" /\ call.done
    /\ call.threshold = 50
    /\ call.query = <<1, 0>>
    /\ call.known = << [student_id |-> "s1", embedding |-> <<0, 1>>] >>
    /\ call.ret = None

\* ------------------------------------------------------------------------
\* ByteTracker.update called on its own, with moving, weak and tiny detections
\* ------------------------------------------------------------------------
MaxUpdates == 4

\* BoxP1 moved right by 40 (IoU 3/7 with BoxP1) and by 60 (IoU 1/4)
BoxP1Moved40 == <<140, 100, 240, 300>>
BoxP1Moved60 == <<160, 100, 260, 300>>
\* area 25, below min_box_area
BoxTiny == <<100, 100, 105, 105>>

DetectionInputs ==
    { <<>>,
      << Person(BoxP1, 90) >>,
      << Person(BoxP1, 30) >>,
      << Person(BoxP1Moved40, 90) >>,
      << Person(BoxP1Moved60, 90) >>,
      << Person(BoxTiny, 90) >>,
      << Person(BoxP1, 90), Person(BoxP2, 90) >>,
      << Person(BoxP1, 30), Person(BoxP2, 90) >>,
      << Person(BoxP1Moved40, 90), Person(BoxP1, 90) >> }

\* tracker.update(detections) on a ByteTracker of its own
TrackerUpdateWith(upd) ==
    /\ tracker' = upd.tracker
    /\ next_id' = upd.next_id
    /\ last_update' = UpdateSummary(upd)
    /\ created' = created \cup upd.spawned
    /\ expired' = expired \cup upd.removed
    /\ UNCHANGED << is_running, session_id, session_metrics, recognition_cooldown,
                    last_frame_time, frame_times, known_embeddings, active_sessions, now,
                    calls, sessions, sink, frame_sink, last_result, phone_log, tasks,
                    analytics, model_vars, call >>

TrackerUpdate(detections) ==
    /\ tracker.frame_id < MaxUpdates
    /\ TrackerUpdateWith(ByteTrackerUpdate(tracker, next_id, detections, track_buffer))

NextTracker == \E detections \in DetectionInputs : TrackerUpdate(detections)

SpecTracker == Init /\ [][NextTracker]_vars

\* ------------------------------------------------------------------------
\* Properties: ByteTracker.update (specification SpecTracker)
\* ------------------------------------------------------------------------
\* the tracks an update matched in one of its association passes
MatchedIds(upd) == { p.track_id : p \in upd.pairs }

\* C31: every track that was Tracked before an update and is matched in
\* none of its association passes is Lost after the call, is in the lost
\* list, is not in the tracked list and is not returned; update([]) turns
\* every Tracked track into Lost, creates no track and returns an empty list.
C31_UnmatchedBecomeLost ==
    [][ tracker'.frame_id = tracker.frame_id + 1 =>
          /\ \A i \in 1..Len(tracker.tracked_tracks) :
                tracker.tracked_tracks[i].track_id \notin MatchedIds(last_update') =>
                   /\ \E j \in 1..Len(tracker'.lost_tracks) :
                         /\ tracker'.lost_tracks[j].track_id = tracker.tracked_tracks[i].track_id
                         /\ tracker'.lost_tracks[j].state = LOST
                   /\ tracker.tracked_tracks[i].track_id \notin TrackIds(tracker'.tracked_tracks)
                   /\ tracker.tracked_tracks[i].track_id \notin TrackIds(last_update'.active)
          /\ last_update'.detections = <<>> =>
                /\ tracker'.tracked_tracks = <<>>
                /\ TrackIds(tracker.tracked_tracks) \subseteq TrackIds(tracker'.lost_tracks)
                /\ last_update'.spawned = {}
                /\ last_update'.active = <<>> ]_vars

\* C31 is exercised: update([]) on a tracker with two Tracked tracks has
\* made both Lost
C31_Witness ==
    /\ last_update.happened
    /\ last_update.detections = <<>>
    /\ Cardinality(last_update.marked_lost) = 2
    /\ Len(tracker.lost_tracks) = 2

\* C31 is exercised: a Tracked track went unmatched in an update that had a
\* detection elsewhere
C31_WitnessElsewhere ==
    /\ last_update.happened
    /\ last_update.detections # <<>>
    /\ last_update.marked_lost # {}
    /\ last_update.marked_lost \cap MatchedIds(last_update) = {}

\* the IoU gate of an association pass, in percent: cost 1 - IoU below
\* match_thresh 0.8, below 0.5, below 0.7
GatePct(pass) == IF pass = 1 THEN 20 ELSE IF pass = 2 THEN 50 ELSE 30

\* C32: in one update the matching is one-to-one across the three passes
\* (each detection updates at most one track, each track is updated from at
\* most one detection), and every accepted pair has an IoU strictly above
\* the gate of its pass: 0.2 for Tracked tracks with high detections, 0.5
\* for the unmatched Tracked tracks with low detections, 0.3 for Lost tracks
\* with the remaining high detections; the boxes of a pair always overlap.
C32_OneToOneGated ==
    \A p \in last_update.pairs :
        /\ \A q \in last_update.pairs :
              (p.track_id = q.track_id \/ p.det_id = q.det_id) => p = q
        /\ IouAbove(p.track_bbox, p.det_bbox, GatePct(p.pass))
        /\ InterArea(p.track_bbox, p.det_bbox) > 0
        /\ p.pass \in {1, 3} => p.det_score >= track_thresh
        /\ p.pass = 2 => p.det_score < track_thresh

\* C32 is exercised: an update matched one track in the first pass and
\* another track in the second, and an update matched a Lost track
C32_Witness ==
    /\ \E p, q \in last_update.pairs : p.pass = 1 /\ q.pass = 2
    /\ Cardinality(last_update.pairs) = 2

C32_WitnessThird ==
    \E p \in last_update.pairs : p.pass = 3 /\ p.track_bbox # p.det_bbox

\* the detections of an update that may start a track: large enough, score
\* at least track_thresh, matched to no track
Unclaimed(upd) ==
    { d \in Range(upd.detections) :
        /\ BoxArea(d.bbox) >= min_box_area
        /\ d.score >= track_thresh
        /\ d.bbox \notin { p.det_bbox : p \in upd.pairs } }

\* the returned tracks that the update created
Spawned(upd) == { t \in Range(upd.active) : t.track_id \in upd.spawned }

\* C33: a new track is created only from a detection with area >=
\* min_box_area and score >= track_thresh that the update matched to no
\* Tracked and no Lost track; every such detection creates exactly one new
\* track, which is Tracked, activated, has start_frame equal to the current
\* frame and is returned by that update.
C33_SpawnFromUnclaimed ==
    /\ Cardinality(last_update.spawned) = Cardinality(Unclaimed(last_update))
    /\ Cardinality(Spawned(last_update)) = Cardinality(last_update.spawned)
    /\ { t.bbox : t \in Spawned(last_update) } = { d.bbox : d \in Unclaimed(last_update) }
    /\ \A t \in Spawned(last_update) :
          /\ t.state = TRACKED
          /\ t.is_activated
          /\ t.start_frame = tracker.frame_id
          /\ t \in Range(tracker.tracked_tracks)

\* C33 is exercised: of two detections the strong one started a track and
\* the weak one did not, with no track to match either
C33_Witness ==
    /\ last_update.happened
    /\ last_update.detections = << Person(BoxP1, 30), Person(BoxP2, 90) >>
    /\ last_update.pairs = {}
    /\ Cardinality(last_update.spawned) = 1

\* C33 is exercised: a detection below min_box_area started no track
C33_WitnessTiny ==
    /\ last_update.happened
    /\ last_update.detections = << Person(BoxTiny, 90) >>
    /\ last_update.spawned = {}

\* C34: after the predict step of an update the bbox of every Lost track is
\* the box of its predicted Kalman mean, so the third association compares
\* the detections with the Lost track's predicted position.
C34_LostBoxPredicted ==
    \A i \in 1..Len(last_update.lost_predicted) :
        last_update.lost_predicted[i].bbox = BoxOfMean(last_update.lost_predicted[i].mean)

\* C35: after every update the tracked list and the lost list are disjoint
\* and hold no track twice, every track of the tracked list is Tracked and
\* activated, every track of the lost list is Lost, the returned list is
\* the tracked list, and no track in state Tracked is in neither list.
C35_ListsConsistent ==
    /\ TrackIds(tracker.tracked_tracks) \cap TrackIds(tracker.lost_tracks) = {}
    /\ Cardinality(TrackIds(tracker.tracked_tracks)) = Len(tracker.tracked_tracks)
    /\ Cardinality(TrackIds(tracker.lost_tracks)) = Len(tracker.lost_tracks)
    /\ \A i \in 1..Len(tracker.tracked_tracks) :
          tracker.tracked_tracks[i].state = TRACKED /\ tracker.tracked_tracks[i].is_activated
    /\ \A i \in 1..Len(tracker.lost_tracks) : tracker.lost_tracks[i].state = LOST
    /\ last_update.happened => last_update.active = tracker.tracked_tracks
    /\ \A t \in last_update.reactivated :
          t.state = TRACKED => t.track_id \in TrackIds(tracker.tracked_tracks)

\* C35 without its last part: the lists themselves are consistent
C35_ListsOnly ==
    /\ TrackIds(tracker.tracked_tracks) \cap TrackIds(tracker.lost_tracks) = {}
    /\ Cardinality(TrackIds(tracker.tracked_tracks)) = Len(tracker.tracked_tracks)
    /\ Cardinality(TrackIds(tracker.lost_tracks)) = Len(tracker.lost_tracks)
    /\ \A i \in 1..Len(tracker.tracked_tracks) :
          tracker.tracked_tracks[i].state = TRACKED /\ tracker.tracked_tracks[i].is_activated
    /\ \A i \in 1..Len(tracker.lost_tracks) : tracker.lost_tracks[i].state = LOST
    /\ last_update.happened => last_update.active = tracker.tracked_tracks

\* ------------------------------------------------------------------------
\* Two seated students, a phone at the second one in some frames
\* ------------------------------------------------------------------------
MaxCreditFrames == 4

BoxPhoneAtP2 == <<440, 180, 460, 200>>

CreditObjects == { <<>>, << Phone(BoxPhoneAtP2) >>, << Phone(BoxPhoneAtP1) >> }

NextCredit ==
    \/ SessionStart("A", <<>>)
    \/ \E objects \in CreditObjects :
          ProcessFrame(MaxCreditFrames, frame_interval,
                       << Person(BoxP1, 90), Person(BoxP2, 90) >>, objects, { OutAttentive })

SpecCredit == Init /\ [][NextCredit]_vars

\* phone_detected_frames of track id, 0 for a track without metrics
PhoneFramesOf(sm, id) ==
    IF sm.present /\ id \in DOMAIN sm.track_metrics
    THEN sm.track_metrics[id].phone_detected_frames ELSE 0

\* the tracks whose phone_detected_frames the step raises
Credited ==
    { id \in (IF session_metrics'.present THEN DOMAIN session_metrics'.track_metrics ELSE {}) :
        PhoneFramesOf(session_metrics', id) > PhoneFramesOf(session_metrics, id) }

\* track id's box overlaps the person of some phone association of the frame
OverlapsPhonePerson(tracks, id, associations) ==
    \E i \in 1..Len(tracks), k \in 1..Len(associations) :
        /\ tracks[i].track_id = id
        /\ IouAbove(tracks[i].bbox, associations[k].person_bbox, track_match_iou_pct)

\* C36: a frame raises phone_detected_frames only of a track whose box
\* overlaps (IoU > 0.5) the detection of a person a phone was associated
\* with, and of at most one track per associated phone.
C36_PhoneCredit ==
    [][Len(phone_log') = Len(phone_log) + 1 =>
          /\ \A id \in Credited :
                OverlapsPhonePerson(tracker'.tracked_tracks, id,
                                    phone_log'[Len(phone_log')].associations)
          /\ Cardinality(Credited) <= Len(phone_log'[Len(phone_log')].associations)]_vars

\* ------------------------------------------------------------------------
\* An on_event callback that raises
\* ------------------------------------------------------------------------
MaxSinkFrames == 4

\* the callback raises for every event of track 1, after it was called
OnEventRaises(event) == event.trackId = 1

RECURSIVE EventLoopUnguarded(_, _, _)
\* the loop over the events without the try block around the call
EventLoopUnguarded(events, i, passed) ==
    IF i > Len(events) THEN [passed |-> passed, raised |-> FALSE]
    ELSE IF OnEventRaises(events[i])
         THEN [passed |-> Append(passed, events[i]), raised |-> TRUE]
         ELSE EventLoopUnguarded(events, i + 1, Append(passed, events[i]))

RECURSIVE EventLoop(_, _, _)
\* "for event in events" of process_frame from position i on: the events
\* on_event was called with, and whether an exception left the loop
EventLoop(events, i, passed) ==
    IF i > Len(events) THEN [passed |-> passed, raised |-> FALSE]
    ELSE IF OnEventRaises(events[i])
         THEN \* except Exception: logged, the loop goes on
              EventLoop(events, i + 1, Append(passed, events[i]))
         ELSE EventLoop(events, i + 1, Append(passed, events[i]))

\* the callbacks of a process_frame call whose on_event may raise; an
\* exception that leaves the loop reaches the except branch of the frame
RaisingSinkEffects(gap, fb, loop) ==
    /\ FrameState(gap, [fb EXCEPT !.result.error = @ \/ loop.raised])
    /\ sink' = sink \o Delivered(calls + 1, loop.passed)
    /\ frame_sink' = IF fb.result.error \/ loop.raised THEN frame_sink
                     ELSE Append(frame_sink, calls + 1)
    /\ UNCHANGED tasks

\* process_frame of a running pipeline whose on_event raises for some events
ProcessFrameRaisingSink(limit, gap, persons, objects, PerTrack) ==
    /\ calls < limit
    /\ is_running
    /\ LET n == Len(ByteTrackerUpdate(tracker, next_id, persons, track_buffer).active)
       IN \E outs \in [1..n -> PerTrack] :
            RaisingSinkEffects(gap, FrameBody(now + gap, FALSE, persons, objects, outs),
                               EventLoop(FrameBody(now + gap, FALSE, persons, objects, outs).result.events,
                                         1, <<>>))

NextSink ==
    \/ SessionStart("A", <<>>)
    \/ \E persons \in PersonInputs :
          ProcessFrameRaisingSink(MaxSinkFrames, frame_interval, persons, <<>>,
                                  { OutAttentive, OutGaze(Distracted) })

SpecSink == Init /\ [][NextSink]_vars

\* the last entries of the sink are the events of the last call, in order
LastEventsInSink ==
    /\ Len(sink) >= Len(last_result.events)
    /\ \A k \in 1..Len(last_result.events) :
          /\ sink[Len(sink) - Len(last_result.events) + k].call = calls
          /\ sink[Len(sink) - Len(last_result.events) + k].event = last_result.events[k]

\* C37: an exception on_event raises for one event does not stop the frame:
\* every event of the frame is still passed to on_event in order, on_frame
\* is still called with the result, and the result carries no error.
C37_SinkErrorContained ==
    last_result.returned =>
        /\ ~last_result.error
        /\ LastEventsInSink
        /\ frame_sink # <<>> /\ frame_sink[Len(frame_sink)] = calls

\* on_event raised for an event of the last frame that was not its last one
C37_Witness ==
    /\ last_result.returned
    /\ \E k \in 1..Len(last_result.events) :
          OnEventRaises(last_result.events[k]) /\ k < Len(last_result.events)
    /\ LastEventsInSink
    /\ frame_sink # <<>> /\ frame_sink[Len(frame_sink)] = calls

\* ------------------------------------------------------------------------
\* Two session ids on the one pipeline of the service
\* ------------------------------------------------------------------------
MaxOverlapStarts == 2
MaxOverlapFrames == 3

OverlapIds == { "A", "B" }

NextOverlap ==
    \/ \E sid \in OverlapIds : SessionStartUpTo(MaxOverlapStarts, sid, <<>>)
    \/ \E sid \in OverlapIds : SessionStop(sid)
    \/ \E persons \in PersonInputs :
          ProcessFrame(MaxOverlapFrames, frame_interval, persons, <<>>, { OutAttentive })

SpecOverlap == Init /\ [][NextOverlap]_vars

\* the step is a session/start that succeeds while another session is active
StartsBeside == active_sessions # {} /\ active_sessions \subseteq active_sessions'
                /\ active_sessions' # active_sessions

\* the step is the session/stop of session sid
Stops(sid) == sid \in active_sessions /\ active_sessions' = active_sessions \ {sid}

\* C38: while a session S is in active_sessions, a session/start for another
\* id neither resets the tracker nor discards S's metrics, and session/stop
\* for S returns the analytics of S: not empty, not another session's.
C38_SessionsApart ==
    [][/\ StartsBeside => tracker' = tracker /\ session_metrics' = session_metrics
       /\ \A sid \in OverlapIds :
             Stops(sid) => /\ session_metrics.present
                           /\ session_metrics.session_id = sid
                           /\ analytics'.returned]_vars

\* ------------------------------------------------------------------------
\* The capability classes models/__init__.py selects by default
\* ------------------------------------------------------------------------
MaxDefaultFrames == 5

\* PostureGazeAnalyzer.analyze of models/pose_gaze_simple.py returns a dict
\* with the keys attention_score, posture_score, attention_state,
\* posture_state, is_attentive, is_drowsy and head_pose; analysis['gaze']
\* of _process_track raises KeyError
DefaultOutcomes == { OutRaises }

NextDefault ==
    \/ SessionStart("A", <<>>)
    \/ \E persons \in PersonInputs :
          ProcessFrame(MaxDefaultFrames, frame_interval, persons, <<>>, DefaultOutcomes)

SpecDefault == Init /\ [][NextDefault]_vars

\* the step is a processed frame with a trackable person whose crop is not empty
FrameWithPerson ==
    /\ calls' = calls + 1
    /\ last_update'.happened
    /\ \E i \in 1..Len(last_update'.active) : ~CropEmpty(last_update'.active[i].bbox)

\* C39: with the default capability classes a frame of a running session
\* with at least one trackable person whose crop is not empty is processed
\* to completion: the result has no error, tracks has one entry per active
\* track, and frame_count grows by one.
C39_DefaultFrameCompletes ==
    [][FrameWithPerson =>
          /\ ~last_result'.error
          /\ Len(last_result'.tracks) = Len(last_update'.active)
          /\ session_metrics'.frame_count = session_metrics.frame_count + 1]_vars

====
